---- MODULE Spec2Model ----
(***************************************************************************)
(* A model of reixi: the TOML settings store (reixi/db.py), the privilege  *)
(* check (reixi/internals.py), the moduleaccess command (reixi/reixi.py)   *)
(* and the reaction-role listeners (reixi/builtins/reactionroles.py).      *)
(***************************************************************************)
EXTENDS Integers, Sequences, FiniteSets, TLC

VARIABLES
    server_settings,          \* TOMLBackend.server_settings: guild id -> ServerSettings
    default_server_settings,  \* common.default_server_settings (guild id 0)
    disk,                     \* the <guild id>.toml files under TOMLBackend.root
    last_op,                  \* the store or command call that returned last
    background_tasks,         \* ReactionRoles.background_tasks and each task's position
    calls,                    \* add_roles / remove_roles calls issued to the platform
    dispatched,               \* number of raw reaction events dispatched so far
    platform_messages,        \* the messages rr new has posted: id, channel, reactions
    cleanup,                  \* the position and locals of ReactionRoles.cleanup
    config,                   \* TOMLBackend.config
    config_file,              \* the .config.toml file under TOMLBackend.root
    write_failures,           \* number of setter saves that have failed so far
    prefix_log,               \* per guild: the value last passed to
                              \* set_server_specific_prefix (<<>>: never set), and
                              \* whether a reload has read the record back since
    bot_cogs,                 \* Bot.cogs: the active cogs, in insertion order
    bot_modules,              \* Bot.modules: the registry of Module records
    source_files,             \* the source file of each built-in module
    ready                     \* Bot.is_ready()

vars == <<server_settings, default_server_settings, disk, last_op,
          background_tasks, calls, dispatched, config, config_file,
          write_failures, prefix_log, platform_messages, cleanup,
          bot_cogs, bot_modules, source_files, ready>>

storeVars == <<server_settings, default_server_settings, disk>>
configVars == <<config, config_file>>
rrVars == <<background_tasks, calls, dispatched, platform_messages, cleanup>>
botVars == <<bot_cogs, bot_modules, source_files, ready>>

-----------------------------------------------------------------------------
(* Values the inputs are drawn from.                                       *)

Guilds == {1, 2}

\* how many setter saves may fail in one run
MaxWriteFailures == 1
PrefixInputs == {"", "!"}

\* common.PREFIX
PREFIX == "rx "

\* message_id: int | None = None
None == 0

EmptyMap == <<>>

\* ReactionRoles.cleanup when it is not running
CleanupIdle ==
    [pc |-> "idle", guilds |-> <<>>, k |-> 0, i |-> 0, alive_rrs |-> <<>>,
     examined |-> EmptyMap, written |-> EmptyMap, runs |-> 0,
     stale |-> FALSE, ss_rrs |-> <<>>]

\* str.lower() on the module names that occur
Lower(s) ==
    CASE s = "Core" -> "core"
      [] s = "ServerPrefixes" -> "serverprefixes"
      [] s = "ReactionRoles" -> "reactionroles"
      [] OTHER -> s

\* [module.lower() for module in modules]
LowerAll(ms) == [i \in 1..Len(ms) |-> Lower(ms[i])]

\* common.ModulePrivileges()
ModulePrivileges == [allow |-> <<>>, deny |-> <<>>]

\* common.ReactionRoleMessage(...)
ReactionRoleMessage(g, c, m, roles) ==
    [guild_id |-> g, channel_id |-> c, message_id |-> m, roles |-> roles]

\* common.ServerSettings(guild_id=g): every field at its default
ServerSettings(g) ==
    [guild_id |-> g, prefix |-> "", reactionroles |-> <<>>,
     modules |-> <<"Core">>, privileged |-> EmptyMap]

InSeq(x, s) == \E i \in 1..Len(s) : s[i] = x

Elements(seq) == {seq[i] : i \in 1..Len(seq)}

\* list.remove(x): drops the first occurrence
Remove(s, x) ==
    LET idx == {i \in 1..Len(s) : s[i] = x}
        k == CHOOSE i \in idx : \A j \in idx : i <= j
    IN  IF idx = {} THEN s
        ELSE [i \in 1..(Len(s) - 1) |-> IF i < k THEN s[i] ELSE s[i + 1]]

-----------------------------------------------------------------------------
(* TOMLBackend getters                                                     *)

\* self.server_settings.get(guild_id, common.default_server_settings)
SettingsOf(g) ==
    IF g \in DOMAIN server_settings THEN server_settings[g]
    ELSE default_server_settings

\* without the fallback to common.PREFIX
get_server_specific_prefix_raw(g) == SettingsOf(g).prefix

get_server_specific_prefix(g) ==
    IF SettingsOf(g).prefix = "" THEN PREFIX ELSE SettingsOf(g).prefix

get_server_specific_modules(g) == SettingsOf(g).modules

get_module_privileges(g, module) ==
    IF module \in DOMAIN SettingsOf(g).privileged
    THEN SettingsOf(g).privileged[module]
    ELSE ModulePrivileges

get_all_privileged_roles(g) == SettingsOf(g).privileged

\* the first entry whose message_id matches; when the loop finds none, or no
\* message id is given, control reaches the final "return rrs"
get_reaction_role_messages(g, message_id) ==
    LET rrs == SettingsOf(g).reactionroles
        idx == {i \in 1..Len(rrs) : rrs[i].message_id = message_id}
    IN  IF message_id # None /\ idx # {}
        THEN <<rrs[CHOOSE i \in idx : \A j \in idx : i <= j]>>
        ELSE rrs

-----------------------------------------------------------------------------
(* TOMLBackend setters                                                     *)

\* if guild_id not in self.server_settings: self.server_settings[guild_id] = ...
WithRecord(g) ==
    IF g \in DOMAIN server_settings THEN server_settings
    ELSE server_settings @@ (g :> ServerSettings(g))

\* tomlkit.dumps(tomlkit.item(ss.model_dump())): a table with every field
TomlDump(ss) == [k \in DOMAIN ss |-> ss[k]]

\* _save_server_settings: write_text of the record; a failure is only logged
SaveServerSettings(ss, g, write_ok) ==
    IF write_ok
    THEN [h \in DOMAIN disk \cup {g} |-> IF h = g THEN TomlDump(ss[g]) ELSE disk[h]]
    ELSE disk

\* a setter: the record is created if absent, the field assigned, the record saved
Store(ss, g, write_ok) ==
    /\ write_ok \/ write_failures < MaxWriteFailures
    /\ write_failures' = IF write_ok THEN write_failures ELSE write_failures + 1
    /\ server_settings' = ss
    /\ disk' = SaveServerSettings(ss, g, write_ok)

set_server_specific_prefix(g, prefix, write_ok) ==
    Store([WithRecord(g) EXCEPT ![g].prefix = prefix], g, write_ok)

\* without the lower-casing of the names
set_server_specific_modules_as_given(g, modules, write_ok) ==
    Store([WithRecord(g) EXCEPT ![g].modules = modules], g, write_ok)

set_server_specific_modules(g, modules, write_ok) ==
    Store([WithRecord(g) EXCEPT ![g].modules = LowerAll(modules)], g, write_ok)

set_module_privileges(g, module, privileges, write_ok) ==
    Store([WithRecord(g) EXCEPT
              ![g].privileged = [m \in DOMAIN @ \cup {module} |->
                                    IF m = module THEN privileges ELSE @[m]]],
          g, write_ok)

set_all_privileged_roles(g, privilege_dict, write_ok) ==
    Store([WithRecord(g) EXCEPT ![g].privileged = privilege_dict], g, write_ok)

set_reaction_role_messages(g, reactionroles, write_ok) ==
    Store([WithRecord(g) EXCEPT ![g].reactionroles = reactionroles], g, write_ok)

-----------------------------------------------------------------------------
(* TOMLBackend.reload                                                      *)

\* .config.toml among the records of a reload (the guild records are named by id)
ConfigRecord == 0

\* a file that common.ServerSettings(**tomlkit.parse(text)) raises on
MalformedFile == [text |-> "guild_id ="]

\* whether common.ServerSettings(**toml) validates: guild_id has no default
Parses(toml) == "guild_id" \in DOMAIN toml

\* common.ServerSettings(**toml): a field the table lacks takes its default
ParseServerSettings(toml) ==
    [k \in DOMAIN ServerSettings(0) |->
        IF k \in DOMAIN toml THEN toml[k] ELSE ServerSettings(0)[k]]

\* with the read-back attempted also for a record whose write-out raised
SkipsReadBackNever(dump, r, write_fails) == FALSE

\* try: dump ... except: errors.append ... else: load. The read-back of record
\* r is skipped exactly when its own write-out raised
SkipsReadBack(dump, r, write_fails) == dump /\ r \in write_fails

\* the files after the dump phase; write_fails are the records whose write fails
DumpedFiles(dump, write_fails) ==
    LET written == IF dump THEN DOMAIN server_settings \ write_fails ELSE {}
    IN  [h \in DOMAIN disk \cup written |->
            IF h \in written THEN TomlDump(server_settings[h]) ELSE disk[h]]

\* the file of record h as the read-back of a reload sees it, were it read
\* before the write-out of the same reload
FileReadStale(files, h) == IF h \in DOMAIN disk THEN disk[h] ELSE files[h]

\* ss_path.read_text(...) after the write-out of the same iteration
FileRead(files, h) == files[h]

\* whether the read-back of guild record h raises: no file, or no valid record
LoadFails(files, h) == h \notin DOMAIN files \/ ~Parses(FileRead(files, h))

\* the errors a reload returns, as <<phase, record>>
ReloadErrors(dump, load, write_fails, files) ==
    {<<"save", r>> : r \in IF dump THEN write_fails \cap (DOMAIN server_settings \cup {ConfigRecord})
                            ELSE {}}
    \cup {<<"load", g>> : g \in {h \in DOMAIN server_settings :
                /\ load
                /\ ~SkipsReadBack(dump, h, write_fails)
                /\ LoadFails(files, h)}}

\* the guilds whose in-memory record a reload replaces with a new
\* ServerSettings object read from the file
RereadGuilds(dump, load, write_fails) ==
    {h \in DOMAIN server_settings :
        /\ load
        /\ ~SkipsReadBack(dump, h, write_fails)
        /\ ~LoadFails(DumpedFiles(dump, write_fails), h)}

\* a sweep suspended in the loop over ss.reactionroles holds the ServerSettings
\* object it took from server_settings.items(); once the store has replaced the
\* record of that guild, the list the sweep iterates is no longer the stored one
HeldAcrossReload(c, replaced) ==
    IF c.pc = "fetch" /\ ~c.stale /\ c.guilds[c.k] \in replaced
    THEN [c EXCEPT !.stale = TRUE,
                   !.ss_rrs = server_settings[c.guilds[c.k]].reactionroles]
    ELSE c

\* per record (.config.toml, then every known guild): an optional write-out,
\* then, unless that write failed, an optional read-back that replaces the
\* in-memory record
reload(dump, load, write_fails) ==
    LET known == DOMAIN server_settings
        files == DumpedFiles(dump, write_fails)
        cfg_written == dump /\ ConfigRecord \notin write_fails
        cfg_file == IF cfg_written THEN config ELSE config_file
        reread(h) == /\ load /\ ~SkipsReadBack(dump, h, write_fails)
                     /\ ~LoadFails(files, h)
    IN  /\ disk' = files
        /\ config_file' = cfg_file
        /\ config' = IF load /\ ~SkipsReadBack(dump, ConfigRecord, write_fails)
                      THEN cfg_file ELSE config
        /\ server_settings' =
               [h \in known |->
                   IF reread(h) THEN ParseServerSettings(FileRead(files, h))
                   ELSE server_settings[h]]
        /\ prefix_log' =
               [h \in Guilds |->
                   IF h \in known /\ reread(h) /\ prefix_log[h].last # <<>>
                   THEN [prefix_log[h] EXCEPT !.reread = TRUE] ELSE prefix_log[h]]
        /\ cleanup' = HeldAcrossReload(cleanup, RereadGuilds(dump, load, write_fails))
        /\ UNCHANGED <<default_server_settings, write_failures>>

\* what a call of reload leaves in last_op: its arguments, the writes that
\* failed, the errors it returned, and whether it repeats a dump-and-load
\* reload that returned no error
ReloadOp(dump, load, write_fails) ==
    [name |-> "reload", guild |-> 0,
     arg |-> [dump |-> dump, load |-> load, write_fails |-> write_fails,
              repeat |-> /\ dump /\ load /\ last_op.name = "reload"
                         /\ last_op.arg.dump /\ last_op.arg.load
                         /\ last_op.arg.errors = {},
              errors |-> ReloadErrors(dump, load, write_fails,
                                      DumpedFiles(dump, write_fails))]]

-----------------------------------------------------------------------------
(* Calls of the store's interface, with their inputs                       *)

\* the guilds the privilege and reaction-role setters are called for
SecondaryGuilds == {1}

ModuleListInputs == {<<"Core", "ReactionRoles">>, <<"core">>}
PrivilegeInputs == {[allow |-> <<7>>, deny |-> <<8>>]}
PrivilegeDictInputs == {EmptyMap}
ReactionRoleInputs == {<<>>, <<ReactionRoleMessage(1, 10, 100, "a" :> 7)>>}

\* a reload in which no write-out fails, or the write-out of one record does
ReloadFailInputs == {{}} \cup {{r} : r \in DOMAIN server_settings \cup {ConfigRecord}}

SetPrefix(g, prefix, write_ok) ==
    /\ set_server_specific_prefix(g, prefix, write_ok)
    /\ last_op' = [name |-> "set_server_specific_prefix", guild |-> g, arg |-> prefix]
    /\ prefix_log' = [prefix_log EXCEPT ![g] = [last |-> <<prefix>>, reread |-> FALSE]]
    /\ UNCHANGED <<default_server_settings, rrVars, botVars, configVars>>

SetModules(g, modules, write_ok) ==
    /\ set_server_specific_modules(g, modules, write_ok)
    /\ last_op' = [name |-> "set_server_specific_modules", guild |-> g, arg |-> modules]
    /\ UNCHANGED <<default_server_settings, rrVars, botVars, configVars, prefix_log>>

SetModulePrivileges(g, module, privileges, write_ok) ==
    /\ set_module_privileges(g, module, privileges, write_ok)
    /\ last_op' = [name |-> "set_module_privileges", guild |-> g, arg |-> module]
    /\ UNCHANGED <<default_server_settings, rrVars, botVars, configVars, prefix_log>>

SetAllPrivilegedRoles(g, privilege_dict, write_ok) ==
    /\ set_all_privileged_roles(g, privilege_dict, write_ok)
    /\ last_op' = [name |-> "set_all_privileged_roles", guild |-> g, arg |-> ""]
    /\ UNCHANGED <<default_server_settings, rrVars, botVars, configVars, prefix_log>>

SetReactionRoleMessages(g, reactionroles, write_ok) ==
    /\ set_reaction_role_messages(g, reactionroles, write_ok)
    /\ last_op' = [name |-> "set_reaction_role_messages", guild |-> g, arg |-> ""]
    /\ UNCHANGED <<default_server_settings, rrVars, botVars, configVars, prefix_log>>

Reload(dump, load, write_fails) ==
    /\ reload(dump, load, write_fails)
    /\ last_op' = ReloadOp(dump, load, write_fails)
    /\ UNCHANGED <<background_tasks, calls, dispatched, platform_messages, botVars>>

-----------------------------------------------------------------------------
(* The module registry: Bot.refresh_module_info (reixi/internals.py).      *)

core_path == "reixi.reixi"
ServerPrefixesPath == "reixi.builtins.serverprefixes"
ReactionRolesPath == "reixi.builtins.reactionroles"
\* an extension that is neither the core module nor under reixi.builtins
ExternalPath == "plugins.extra"

\* cog.__module__ == core_path or cog.__module__.startswith("reixi.builtins.")
IsBuiltin(p) == p \in {core_path, ServerPrefixesPath, ReactionRolesPath}

\* the cog the setup of an extension adds with bot.add_cog: its name in
\* Bot.cogs and the __module__ of its class
Cog(p) ==
    [name |-> CASE p = core_path -> "Core"
                [] p = ServerPrefixesPath -> "ServerPrefixes"
                [] p = ReactionRolesPath -> "ReactionRoles"
                [] OTHER -> "Extra",
     path |-> p]

\* dataclass Module
Module(n, p, l, h) == [name |-> n, path |-> p, loaded |-> l, hash |-> h]

\* a source file that exists with its first content
SourceFile == [state |-> "file", content |-> 1]

\* the states a source file is put in: edited, deleted, made unreadable
SourceFileInputs ==
    {SourceFile, [state |-> "file", content |-> 2],
     [state |-> "missing", content |-> 0], [state |-> "unreadable", content |-> 0]}

\* blake2s(file.read()).hexdigest(), as a sequence of hex digits: contents
\* that differ have digests that differ within the first digits
hash_file(f) ==
    CASE f.content = 1 -> <<"3", "f", "a", "0", "9", "c", "1", "d", "7", "e", "2", "b">>
      [] f.content = 2 -> <<"8", "1", "5", "e", "0", "a", "4", "4", "6", "c", "d", "9">>
      [] OTHER -> <<"c", "4", "4", "b", "7", "0", "2", "9", "a", "1", "f", "6">>

\* cog_hash: str = "unknown"
Unknown == <<"u", "n", "k", "n", "o", "w", "n">>

\* cog_hash[:10]
HashWidth == 10
Take(s, n) == SubSeq(s, 1, IF Len(s) < n THEN Len(s) ELSE n)

\* whether a registered Module has the path of the cog
already_registered(mods, p) == \E i \in 1..Len(mods) : mods[i].path = p

\* the registration that appends whether or not the path is registered
RegisterAppends(mods, module) == Append(mods, module)

\* every registered Module with the path of the cog gets its name, loaded=True
\* and its hash; a Module is appended only when none has the path
Register(mods, module) ==
    IF already_registered(mods, module.path)
    THEN [i \in 1..Len(mods) |->
             IF mods[i].path = module.path
             THEN [mods[i] EXCEPT !.name = module.name, !.loaded = TRUE,
                                  !.hash = module.hash]
             ELSE mods[i]]
    ELSE Append(mods, module)

\* the loop over self.cogs.items(): cog_path is assigned only for a built-in
\* cog, so another cog is fingerprinted at the path the iteration before left
\* (Core is always the first cog, so cog_path is bound when it is read); a cog
\* whose file does not exist is passed over with "continue"; a cog whose file
\* cannot be hashed keeps cog_hash = "unknown" and is registered with it
RECURSIVE RefreshCogs(_, _, _, _, _)
RefreshCogs(cogs, mods, files, seen_cog_paths, cog_path) ==
    IF cogs = <<>> THEN [modules |-> mods, seen |-> seen_cog_paths]
    ELSE LET cog == Head(cogs)
             seen == Append(seen_cog_paths, cog.path)
             at == IF IsBuiltin(cog.path) THEN cog.path ELSE cog_path
             cog_hash == IF files[at].state = "unreadable" THEN Unknown
                         ELSE hash_file(files[at])
         IN  IF files[at].state = "missing"
             THEN RefreshCogs(Tail(cogs), mods, files, seen, at)
             ELSE RefreshCogs(
                      Tail(cogs),
                      Register(mods, Module(cog.name, cog.path, TRUE,
                                            Take(cog_hash, HashWidth))),
                      files, seen, at)

\* Bot.refresh_module_info: the loop over the cogs, then every registered
\* Module whose path was not seen gets loaded = False
refresh_module_info(cogs, mods, files) ==
    LET r == RefreshCogs(cogs, mods, files, <<>>, core_path)
    IN  [i \in 1..Len(r.modules) |->
            IF InSeq(r.modules[i].path, r.seen) THEN r.modules[i]
            ELSE [r.modules[i] EXCEPT !.loaded = FALSE]]

-----------------------------------------------------------------------------
(* TOMLBackend.__init__ and the state after construction on an empty       *)
(* data directory                                                          *)

\* common.Config(), with one operator listed in gods
Config == [gods |-> <<900>>,
           modules |-> <<"reixi.builtins.serverprefixes",
                         "reixi.builtins.reactionroles">>]

\* the load loop of __init__ giving up at the first file that does not load
LoadedAtInitAllOrNothing(files) ==
    IF \E h \in DOMAIN files : ~Parses(files[h]) THEN EmptyMap
    ELSE [g \in {ParseServerSettings(files[h]).guild_id : h \in DOMAIN files} |->
             ParseServerSettings(
                 files[CHOOSE h \in DOMAIN files :
                           ParseServerSettings(files[h]).guild_id = g])]

\* TOMLBackend.__init__, "load all server settings": every <number>.toml that
\* parses is stored under the guild_id it holds; the others are only counted
LoadedAtInit(files) ==
    LET good == {h \in DOMAIN files : Parses(files[h])}
    IN  [g \in {ParseServerSettings(files[h]).guild_id : h \in good} |->
            ParseServerSettings(
                files[CHOOSE h \in good : ParseServerSettings(files[h]).guild_id = g])]

\* load_success and load_failure of __init__
LoadSuccess(files) == Cardinality({h \in DOMAIN files : Parses(files[h])})
LoadFailure(files) == Cardinality({h \in DOMAIN files : ~Parses(files[h])})

\* what construction leaves in last_op: the guild files found and the counts
ConstructOp(files) ==
    [name |-> "init", guild |-> 0,
     arg |-> [found |-> DOMAIN files, load_success |-> LoadSuccess(files),
              load_failure |-> LoadFailure(files)]]

\* Reixi.__init__: the Bot is made with an empty registry, Core is added, the
\* extensions of config.modules are loaded and the registry is refreshed
BotConstructed ==
    LET cogs == <<Cog(core_path)>> \o
                [i \in 1..Len(Config.modules) |-> Cog(Config.modules[i])]
        files == [p \in {core_path, ServerPrefixesPath, ReactionRolesPath} |->
                     SourceFile]
    IN  /\ bot_cogs = cogs
        /\ bot_modules = refresh_module_info(cogs, <<>>, files)
        /\ source_files = files
        /\ ready = FALSE

Init ==
    /\ server_settings = EmptyMap
    /\ default_server_settings = ServerSettings(0)
    /\ disk = EmptyMap
    /\ config = Config
    /\ config_file = Config
    /\ last_op = ConstructOp(EmptyMap)
    /\ background_tasks = <<>>
    /\ calls = {}
    /\ dispatched = 0
    /\ platform_messages = {}
    /\ cleanup = CleanupIdle
    /\ write_failures = 0
    /\ prefix_log = [g \in Guilds |-> [last |-> <<>>, reread |-> FALSE]]
    /\ BotConstructed

StoreNext ==
    \/ \E g \in Guilds, p \in PrefixInputs, ok \in BOOLEAN : SetPrefix(g, p, ok)
    \/ \E g \in Guilds, ms \in ModuleListInputs, ok \in BOOLEAN : SetModules(g, ms, ok)
    \/ \E g \in SecondaryGuilds, pr \in PrivilegeInputs, ok \in BOOLEAN :
           SetModulePrivileges(g, "core", pr, ok)
    \/ \E g \in SecondaryGuilds, pd \in PrivilegeDictInputs, ok \in BOOLEAN :
           SetAllPrivilegedRoles(g, pd, ok)
    \/ \E g \in SecondaryGuilds, rrs \in ReactionRoleInputs, ok \in BOOLEAN :
           SetReactionRoleMessages(g, rrs, ok)
    \/ \E load \in BOOLEAN, fails \in ReloadFailInputs : Reload(TRUE, load, fails)
    \/ Reload(FALSE, TRUE, {})

SpecStore == Init /\ [][StoreNext]_vars

-----------------------------------------------------------------------------
(* Construction on a data directory that holds guild files                 *)

\* what an operator may leave in <guild>.toml between two runs: text that does
\* not parse, a record that names only the guild, a record with a prefix
FileInputs(g) ==
    {MalformedFile, [guild_id |-> g], [ServerSettings(g) EXCEPT !.prefix = "?"]}

\* the file of guild g is edited, or created, outside the program
FileEdited(g, content) ==
    /\ disk' = [h \in DOMAIN disk \cup {g} |-> IF h = g THEN content ELSE disk[h]]
    /\ last_op' = [name |-> "file edited", guild |-> g, arg |-> ""]
    /\ UNCHANGED <<server_settings, default_server_settings, write_failures,
                   rrVars, botVars, configVars, prefix_log>>

\* the process is started again: TOMLBackend(db_dir) on the directory as it is
Construct ==
    /\ server_settings' = LoadedAtInit(disk)
    /\ default_server_settings' = ServerSettings(0)
    /\ config' = config_file
    /\ last_op' = ConstructOp(disk)
    /\ prefix_log' = [g \in Guilds |->
                         IF prefix_log[g].last # <<>>
                         THEN [prefix_log[g] EXCEPT !.reread = TRUE] ELSE prefix_log[g]]
    /\ UNCHANGED <<disk, config_file, write_failures, rrVars, botVars>>

LoadNext ==
    \/ \E g \in Guilds, p \in PrefixInputs : SetPrefix(g, p, TRUE)
    \/ \E g \in Guilds, ms \in ModuleListInputs : SetModules(g, ms, TRUE)
    \/ \E g \in Guilds : \E content \in FileInputs(g) : FileEdited(g, content)
    \/ Construct
    \/ \E dump \in BOOLEAN : Reload(dump, TRUE, {})

SpecLoad == Init /\ [][LoadNext]_vars

-----------------------------------------------------------------------------
(* Core.reload, the gstate command                                         *)

\* "chunk into 2000 character messages"; "6 for the code block, 2 for the newlines"
MessageLimit == 2000
CodeBlockLength == 6
NewlinesLength == 2

\* lengths of an errortext: message, newline, traceback lines, newline
ErrorTextSizes == {300, 1200}

\* the list reload returns: the error of .config.toml, then those of the guild
\* records in the order of server_settings, each with the length of its errortext
RECURSIVE ErrorList(_, _)
ErrorList(errs, size) ==
    IF errs = {} THEN <<>>
    ELSE LET e == CHOOSE x \in errs : \A y \in errs : x[2] <= y[2]
         IN  <<[phase |-> e[1], record |-> e[2], size |-> size[e[2]]]>>
             \o ErrorList(errs \ {e}, size)

\* len("\n".join(chunk))
RECURSIVE SumSizes(_)
SumSizes(chunk) ==
    IF chunk = <<>> THEN 0 ELSE Head(chunk).size + SumSizes(Tail(chunk))

JoinLength(chunk) ==
    IF chunk = <<>> THEN 0 ELSE SumSizes(chunk) + (Len(chunk) - 1)

\* ctx.reply("```\n" + "\n".join(chunk) + "\n```"); the platform refuses a
\* message longer than its limit and the reply raises
Reply(chunk) ==
    [entries |-> chunk, length |-> JoinLength(chunk) + 8,
     delivered |-> JoinLength(chunk) + 8 <= MessageLimit]

\* the chunking loop and the reply after it; a reply that raises ends the command
RECURSIVE ChunkReplies(_, _, _)
ChunkReplies(errors, chunk, replies) ==
    IF errors = <<>>
    THEN IF Len(chunk) = 1 THEN Append(replies, Reply(chunk)) ELSE replies
    ELSE LET e == Head(errors)
         IN  IF JoinLength(chunk) + e.size > MessageLimit - CodeBlockLength - NewlinesLength
             THEN IF Reply(chunk).delivered
                  THEN ChunkReplies(Tail(errors), <<e>>, Append(replies, Reply(chunk)))
                  ELSE Append(replies, Reply(chunk))
             ELSE ChunkReplies(Tail(errors), Append(chunk, e), replies)

GstateArgs == {"dump", "load", "reload", "usage"}

\* a check that lets every author pass
IsGodAnyone(author_id) == TRUE

\* ctx.author.id in ctx.bot.db.config.gods
IsGod(author_id) == InSeq(author_id, config.gods)

\* gstate dump | load | reload by author_id; write_fails are the records whose
\* write-out fails and size gives the length of the errortext of each record
Gstate(author_id, args, write_fails, size) ==
    LET accepted == IsGod(author_id)
        dump == args \in {"dump", "reload"}
        load == args \in {"load", "reload"}
        errors == ErrorList(ReloadErrors(dump, load, write_fails,
                                         DumpedFiles(dump, write_fails)), size)
    IN  /\ IF accepted /\ args # "usage"
           THEN reload(dump, load, write_fails)
           ELSE /\ write_fails = {}
                /\ UNCHANGED <<storeVars, write_failures, configVars, prefix_log,
                               cleanup>>
        /\ last_op' =
               [name |-> "gstate", guild |-> 0,
                arg |-> IF accepted /\ args # "usage"
                        THEN [author_id |-> author_id, args |-> args, ran |-> TRUE,
                              errors |-> errors,
                              replies |-> IF errors = <<>> THEN <<>>
                                          ELSE ChunkReplies(errors, <<>>, <<>>),
                              reaction |-> errors = <<>>]
                        ELSE [author_id |-> author_id, args |-> args, ran |-> FALSE,
                              errors |-> <<>>, replies |-> <<>>, reaction |-> FALSE]]
        /\ UNCHANGED <<background_tasks, calls, dispatched, platform_messages, botVars>>

AuthorInputs == {900, 501}

GstateNext ==
    \/ \E g \in Guilds, p \in PrefixInputs, ok \in BOOLEAN : SetPrefix(g, p, ok)
    \/ \E a \in AuthorInputs, args \in GstateArgs,
          fails \in SUBSET (DOMAIN server_settings \cup {ConfigRecord}),
          size \in [DOMAIN server_settings \cup {ConfigRecord} -> ErrorTextSizes] :
           Gstate(a, args, fails, size)

SpecGstate == Init /\ [][GstateNext]_vars

-----------------------------------------------------------------------------
(* internals.is_user_privileged and Core.moduleaccess                      *)

\* a command context: the guild (None in a direct message), whether the author
\* is a Member with guild_permissions.administrator, and the author's role ids
Context(g, admin, roles) == [guild |-> g, admin |-> admin, roles |-> roles]

\* with the test for an empty module made before the administrator test
is_user_privileged_module_first(ctx, module) ==
    IF ctx.guild = None THEN FALSE
    ELSE IF module = "" THEN FALSE
    ELSE IF ctx.admin THEN TRUE
    ELSE \E r \in ctx.roles :
            InSeq(r, get_module_privileges(ctx.guild, Lower(module)).allow)

\* with a role in deny overriding the roles in allow
is_user_privileged_deny_wins(ctx, module) ==
    IF ctx.guild = None THEN FALSE
    ELSE IF ctx.admin THEN TRUE
    ELSE IF module = "" THEN FALSE
    ELSE /\ \E r \in ctx.roles :
               InSeq(r, get_module_privileges(ctx.guild, Lower(module)).allow)
         /\ ~\E r \in ctx.roles :
               InSeq(r, get_module_privileges(ctx.guild, Lower(module)).deny)

is_user_privileged(ctx, module) ==
    IF ctx.guild = None THEN FALSE
    ELSE IF ctx.admin THEN TRUE
    ELSE IF module = "" THEN FALSE
    ELSE \E r \in ctx.roles :
            InSeq(r, get_module_privileges(ctx.guild, Lower(module)).allow)

\* the Module names of Bot.modules once Core and the two built-in extensions of
\* Config.modules are loaded
BotModuleNames == {"Core", "ServerPrefixes", "ReactionRoles"}

\* guild.get_role(role_id) is not None
GuildRoles == {7, 8}

\* ModuleAcessSetFlag
ModuleAcessSetFlag == {"allow", "deny", "remove"}

\* the ALLOW branch without the removal from deny
ModacsAllowKeepDeny(cur, role_id) ==
    IF role_id \notin GuildRoles \/ InSeq(role_id, cur.allow)
    THEN [changed |-> FALSE, privileges |-> cur]
    ELSE [changed |-> TRUE,
          privileges |-> [allow |-> Append(cur.allow, role_id), deny |-> cur.deny]]

\* the ALLOW branch without the test for a role that is already allowed
ModacsAllowAppend(cur, role_id) ==
    IF role_id \notin GuildRoles
    THEN [changed |-> FALSE, privileges |-> cur]
    ELSE [changed |-> TRUE,
          privileges |-> [allow |-> Append(cur.allow, role_id),
                          deny |-> Remove(cur.deny, role_id)]]

\* case ModuleAcessSetFlag.ALLOW
ModacsAllow(cur, role_id) ==
    IF role_id \notin GuildRoles \/ InSeq(role_id, cur.allow)
    THEN [changed |-> FALSE, privileges |-> cur]
    ELSE [changed |-> TRUE,
          privileges |-> [allow |-> Append(cur.allow, role_id),
                          deny |-> Remove(cur.deny, role_id)]]

\* case ModuleAcessSetFlag.DENY
ModacsDeny(cur, role_id) ==
    IF role_id \notin GuildRoles \/ InSeq(role_id, cur.deny)
    THEN [changed |-> FALSE, privileges |-> cur]
    ELSE [changed |-> TRUE,
          privileges |-> [allow |-> Remove(cur.allow, role_id),
                          deny |-> Append(cur.deny, role_id)]]

\* case ModuleAcessSetFlag.REMOVE
ModacsRemove(cur, role_id) ==
    IF ~(InSeq(role_id, cur.allow) \/ InSeq(role_id, cur.deny))
    THEN [changed |-> FALSE, privileges |-> cur]
    ELSE [changed |-> TRUE,
          privileges |-> [allow |-> Remove(cur.allow, role_id),
                          deny |-> Remove(cur.deny, role_id)]]

\* Core._modacs_set up to its call of set_module_privileges: the privileges are
\* read under module.lower(); an early "return False" leaves them untouched
modacs_set(g, role_id, module, setting) ==
    LET cur == get_module_privileges(g, Lower(module))
    IN  CASE setting = "allow" -> ModacsAllow(cur, role_id)
          [] setting = "deny" -> ModacsDeny(cur, role_id)
          [] setting = "remove" -> ModacsRemove(cur, role_id)

\* moduleaccess set ROLE_ID MODULE SETTING
ModuleAccessSet(ctx, role_id, module, setting, write_ok) ==
    LET g == ctx.guild
        accepted == /\ is_user_privileged(ctx, "Core")
                    /\ Lower(module) \in {Lower(n) : n \in BotModuleNames}
                    /\ setting \in ModuleAcessSetFlag
        res == modacs_set(g, role_id, Lower(module), setting)
    IN  /\ g # None
        /\ IF accepted /\ res.changed
           THEN set_module_privileges(g, Lower(module), res.privileges, write_ok)
           ELSE write_ok /\ UNCHANGED <<server_settings, disk, write_failures>>
        /\ last_op' = [name |-> "moduleaccess set", guild |-> g,
                       arg |-> [role_id |-> role_id, module |-> Lower(module),
                                setting |-> setting,
                                before |-> get_module_privileges(g, Lower(module)),
                                accepted |-> accepted,
                                returned |-> accepted /\ res.changed]]
        /\ UNCHANGED <<default_server_settings, rrVars, botVars, configVars, prefix_log>>

\* a call of is_user_privileged by a command (status calls it for every module)
IsUserPrivileged(ctx, module) ==
    /\ last_op' = [name |-> "is_user_privileged", guild |-> ctx.guild,
                   arg |-> [ctx |-> ctx, module |-> module,
                            returned |-> is_user_privileged(ctx, module)]]
    /\ UNCHANGED <<storeVars, write_failures, rrVars, botVars, configVars, prefix_log>>

\* the authors of moduleaccess commands, all in guild 1: an administrator
\* without roles, and two members
CommandContexts ==
    {Context(1, TRUE, {})} \cup {Context(1, FALSE, rs) : rs \in {{7}, {8}}}

\* the callers is_user_privileged is asked about
CheckContexts ==
    {Context(1, a, rs) : a \in BOOLEAN, rs \in SUBSET GuildRoles}
    \cup {Context(2, TRUE, {}), Context(2, FALSE, {7}), Context(None, FALSE, {})}

RoleIdInputs == {7, 8, 9}
ModuleNameInputs == {"Core", "reactionroles"}

\* moduleaccess commands whose save succeeds, and privilege checks
PrivNext ==
    \/ \E ctx \in CommandContexts, r \in RoleIdInputs, m \in ModuleNameInputs \cup {"nosuch"},
          f \in ModuleAcessSetFlag :
           ModuleAccessSet(ctx, r, m, f, TRUE)
    \/ \E ctx \in CheckContexts, m \in ModuleNameInputs \cup {"ReactionRoles", ""} :
           IsUserPrivileged(ctx, m)

SpecPriv == Init /\ [][PrivNext]_vars

-----------------------------------------------------------------------------
(* builtins/reactionroles.py: rr new and the reaction listeners            *)

\* reactionroles.NAME
NAME == "reactionroles"

\* how many messages rr new may post, how many raw reaction events the gateway
\* may dispatch, and how many times the platform may report ready
MaxMessages == 2
MaxEvents == 2
MaxReady == 2

\* ids of the messages rr new posts (the platform hands out fresh ids), and the
\* id of a message that is no reaction-role message
FirstMessageId == 100
OtherMessageId == 999
TextChannels == {10}
Users == {501}

NoPayload ==
    [id |-> 0, event_type |-> "", guild_id |-> None, message_id |-> 0,
     user_id |-> 0, emoji |-> ""]

\* a task created by asyncio.create_task(self.reaction_handler(remove))
NewTask(remove) ==
    [remove |-> remove, pc |-> "start", payload |-> NoPayload, role |-> 0]

PairingInputs == {("a" :> 7), ("b" :> 8)}

\* the checks of the rr command without the test that the module is enabled
ReactionRolesAcceptedAnywhere(ctx) == is_user_privileged(ctx, NAME)

\* the checks every rr command starts with: the module is enabled in the guild
\* and the author is privileged for it
ReactionRolesAccepted(ctx) ==
    /\ NAME \in Elements(get_server_specific_modules(ctx.guild))
    /\ is_user_privileged(ctx, NAME)

\* the append with the entry stored as soon as the message is posted
ReactionRolesStoresUnseeded(accepted, sent, seeded) == accepted /\ sent

\* rr new reaches "get current list, add and set" only when the channel
\* resolved, target_channel.send returned and every add_reaction returned
ReactionRolesStores(accepted, sent, seeded) == accepted /\ sent /\ seeded

\* rr new CHANNEL MESSAGE PAIRING...; sent: target_channel.send returned;
\* seeded: every rr_msg.add_reaction returned
ReactionRolesNew(ctx, channel_id, pairings, sent, seeded, write_ok) ==
    LET g == ctx.guild
        accepted == ReactionRolesAccepted(ctx) /\ channel_id \in TextChannels
        stores == ReactionRolesStores(accepted, sent, seeded)
        msg_id == FirstMessageId + Cardinality(platform_messages)
        current_rrs == get_reaction_role_messages(g, None)
        appended == Append(current_rrs, ReactionRoleMessage(g, channel_id, msg_id, pairings))
    IN  /\ g # None
        /\ Cardinality(platform_messages) < MaxMessages
        /\ platform_messages' =
               IF accepted /\ sent
               THEN platform_messages \cup
                       {[id |-> msg_id, guild_id |-> g, channel_id |-> channel_id,
                         reactions |-> IF seeded THEN DOMAIN pairings ELSE {},
                         deleted |-> FALSE]}
               ELSE platform_messages
        /\ IF stores
           THEN /\ set_reaction_role_messages(g, appended, write_ok)
                \* current_rrs is the list held by the settings it was read from
                /\ default_server_settings' =
                       IF g \in DOMAIN server_settings THEN default_server_settings
                       ELSE [default_server_settings EXCEPT !.reactionroles = appended]
           ELSE /\ write_ok /\ (sent => ~seeded)
                /\ UNCHANGED <<storeVars, write_failures>>
        /\ last_op' = [name |-> "rr new", guild |-> g,
                       arg |-> [stored |-> stores, before |-> current_rrs,
                                sent |-> accepted /\ sent,
                                seeded |-> accepted /\ sent /\ seeded]]
        /\ UNCHANGED <<background_tasks, calls, dispatched, cleanup, configVars, botVars,
                   prefix_log>>

\* whether the extension is loaded, that is its cog is in Bot.cogs
Active(p) == InSeq(Cog(p), bot_cogs)

\* ReactionRoles.on_ready: two more listener tasks are created and appended
on_ready(tasks) == tasks \o <<NewTask(FALSE), NewTask(TRUE)>>

\* ReactionRoles.cog_load: on_ready is called if the bot is ready
cog_load(tasks) == IF ready THEN on_ready(tasks) ELSE tasks

\* ReactionRoles.cog_unload: task.cancel() for every task of background_tasks,
\* which is a request: a task that is not done gets CancelledError thrown in
\* when the event loop runs it next; cog_unload awaits none of them
cog_unload(tasks) ==
    [i \in 1..Len(tasks) |->
        IF tasks[i].pc \in {"cancelling", "cancelled", "raised"} THEN tasks[i]
        ELSE [tasks[i] EXCEPT !.pc = "cancelling"]]

\* the platform reports ready (it may do so again after a reconnect): the bot
\* is ready from then on, and the on_ready listener of the ReactionRoles cog
\* runs if the cog is loaded
OnReady ==
    /\ Active(ReactionRolesPath) => Len(background_tasks) < 2 * MaxReady
    /\ background_tasks' = IF Active(ReactionRolesPath) THEN on_ready(background_tasks)
                           ELSE background_tasks
    /\ ready' = TRUE
    /\ UNCHANGED <<storeVars, write_failures, last_op, calls, dispatched,
                   platform_messages, cleanup, configVars, bot_cogs, bot_modules,
                   source_files, prefix_log>>

\* the event loop runs the tasks on_ready created: each runs up to its first
\* await self.bot.wait_for(wait_for)
TasksStart ==
    /\ \E i \in 1..Len(background_tasks) : background_tasks[i].pc = "start"
    /\ background_tasks' =
           [i \in 1..Len(background_tasks) |->
               IF background_tasks[i].pc = "start"
               THEN [background_tasks[i] EXCEPT !.pc = "wait_for"]
               ELSE background_tasks[i]]
    /\ UNCHANGED <<storeVars, write_failures, last_op, calls, dispatched,
                   platform_messages, cleanup, configVars, botVars,
                   prefix_log>>

\* the gateway dispatches raw_reaction_add / raw_reaction_remove: every task
\* blocked in wait_for on that event receives the payload and becomes runnable
Dispatch(remove, guild_id, message_id, user_id, emoji) ==
    /\ dispatched < MaxEvents
    /\ dispatched' = dispatched + 1
    /\ background_tasks' =
           [i \in 1..Len(background_tasks) |->
               IF background_tasks[i].pc = "wait_for" /\ background_tasks[i].remove = remove
               THEN [background_tasks[i] EXCEPT
                        !.pc = "resumed",
                        !.payload = [id |-> dispatched + 1,
                                     event_type |-> IF remove THEN "REACTION_REMOVE"
                                                    ELSE "REACTION_ADD",
                                     guild_id |-> guild_id,
                                     message_id |-> message_id, user_id |-> user_id,
                                     emoji |-> emoji]]
               ELSE background_tasks[i]]
    /\ UNCHANGED <<storeVars, write_failures, last_op, calls, platform_messages,
                   cleanup, configVars, botVars,
                   prefix_log>>

\* one iteration of reaction_handler from the return of wait_for to
\* "await guild.fetch_member(payload.user_id)", or to the "continue" that awaits
\* the next event; guild_cached: self.bot.get_guild found the guild
HandlePayload(i, guild_cached) ==
    LET t == background_tasks[i]
        rrs == get_reaction_role_messages(t.payload.guild_id, t.payload.message_id)
        proceed == /\ t.payload.guild_id # None
                   /\ Len(rrs) # 0
                   /\ t.payload.emoji \in DOMAIN rrs[1].roles
                   /\ guild_cached
                   /\ rrs[1].roles[t.payload.emoji] \in GuildRoles
    IN  /\ t.pc = "resumed"
        /\ background_tasks' =
               IF proceed
               THEN [background_tasks EXCEPT
                        ![i].pc = "fetch_member",
                        ![i].role = rrs[1].roles[t.payload.emoji]]
               ELSE [background_tasks EXCEPT ![i].pc = "wait_for", ![i].payload = NoPayload]
        /\ UNCHANGED <<storeVars, write_failures, last_op, calls, dispatched,
                       platform_messages, cleanup, configVars, botVars,
                   prefix_log>>

\* guild.fetch_member returns: on a failure the loop continues; otherwise
\* member.add_roles(role) or member.remove_roles(role) is called
FetchMemberReturns(i, fetched) ==
    LET t == background_tasks[i]
    IN  /\ t.pc = "fetch_member"
        /\ IF fetched
           THEN /\ calls' = calls \cup
                       {[op |-> IF t.remove THEN "remove_roles" ELSE "add_roles",
                         role |-> t.role, member |-> t.payload.user_id,
                         task |-> i, event |-> t.payload, outcome |-> "pending"]}
                /\ background_tasks' = [background_tasks EXCEPT ![i].pc = "set_role"]
           ELSE /\ calls' = calls
                /\ background_tasks' =
                       [background_tasks EXCEPT ![i].pc = "wait_for",
                                                ![i].payload = NoPayload, ![i].role = 0]
        /\ UNCHANGED <<storeVars, write_failures, last_op, dispatched,
                       platform_messages, cleanup, configVars, botVars,
                   prefix_log>>

\* the outcomes of member.add_roles / member.remove_roles: it returns, it
\* raises discord.Forbidden, or it raises another exception
RoleCallOutcomes == {"returned", "forbidden", "failed"}

\* the handlers of the role call with "except Exception" left out
SetRoleContinuesForbiddenOnly(outcome) == outcome \in {"returned", "forbidden"}

\* try: await member.add_roles(role) / remove_roles(role);
\* except discord.Forbidden: continue; except Exception: log, continue
SetRoleContinues(outcome) == outcome \in {"returned", "forbidden", "failed"}

\* the role call returns or raises: the loop goes on to await the next event
\* if the outcome is one the handlers cover, otherwise the exception leaves
\* reaction_handler and the task is done
SetRoleReturns(i, outcome) ==
    /\ background_tasks[i].pc = "set_role"
    /\ background_tasks' =
           [background_tasks EXCEPT
               ![i].pc = IF SetRoleContinues(outcome) THEN "wait_for" ELSE "raised",
               ![i].payload = NoPayload, ![i].role = 0]
    /\ calls' = {IF c.task = i /\ c.outcome = "pending"
                 THEN [c EXCEPT !.outcome = outcome] ELSE c : c \in calls}
    /\ UNCHANGED <<storeVars, write_failures, last_op, dispatched,
                   platform_messages, cleanup, configVars, botVars,
                   prefix_log>>

\* the state after construction on a data directory that holds 1.toml, written
\* by an earlier run in which guild 1 enabled the reactionroles module
InitRR ==
    LET rec == [ServerSettings(1) EXCEPT !.modules = <<"core", NAME>>]
    IN  /\ server_settings = (1 :> rec)
        /\ default_server_settings = ServerSettings(0)
        /\ disk = (1 :> rec)
        /\ config = Config
        /\ config_file = Config
        /\ last_op = ConstructOp(1 :> rec)
        /\ background_tasks = <<>>
        /\ calls = {}
        /\ dispatched = 0
        /\ platform_messages = {}
        /\ cleanup = CleanupIdle
        /\ write_failures = 0
        /\ prefix_log = [g \in Guilds |-> [last |-> <<>>, reread |-> FALSE]]
        /\ BotConstructed


\* <<guild_id, message_id, emoji>> of the raw reaction events dispatched
PayloadInputs ==
    {<<1, FirstMessageId, "a">>, <<1, FirstMessageId, "b">>,
     <<1, OtherMessageId, "a">>, <<None, FirstMessageId, "a">>}

RRNext ==
    \/ \E ctx \in {Context(1, TRUE, {}), Context(1, FALSE, {7}), Context(2, TRUE, {})},
          c \in TextChannels \cup {11}, prs \in PairingInputs,
          sent \in BOOLEAN, seeded \in BOOLEAN :
           ReactionRolesNew(ctx, c, prs, sent, seeded, TRUE)
    \/ OnReady
    \/ TasksStart
    \/ \E remove \in BOOLEAN, p \in PayloadInputs, u \in Users :
           Dispatch(remove, p[1], p[2], u, p[3])
    \/ \E i \in 1..Len(background_tasks), cached \in BOOLEAN : HandlePayload(i, cached)
    \/ \E i \in 1..Len(background_tasks), fetched \in BOOLEAN : FetchMemberReturns(i, fetched)
    \/ \E i \in 1..Len(background_tasks) : SetRoleReturns(i, "returned")

SpecRR == InitRR /\ [][RRNext]_vars

-----------------------------------------------------------------------------
(* The gmod command (reixi/reixi.py), which loads, unloads and reloads     *)
(* extensions, and the life of the listener tasks of the ReactionRoles cog *)

\* the event loop runs the tasks cog_unload cancelled: CancelledError is thrown
\* in at the await each is suspended at (or before its first step), no handler
\* of reaction_handler catches it, and the task is done
TasksCancelled ==
    /\ \E i \in 1..Len(background_tasks) : background_tasks[i].pc = "cancelling"
    /\ background_tasks' =
           [i \in 1..Len(background_tasks) |->
               IF background_tasks[i].pc = "cancelling"
               THEN [background_tasks[i] EXCEPT !.pc = "cancelled",
                                                !.payload = NoPayload, !.role = 0]
               ELSE background_tasks[i]]
    /\ UNCHANGED <<storeVars, write_failures, last_op, calls, dispatched,
                   platform_messages, cleanup, configVars, botVars, prefix_log>>

\* whether importing the extension succeeds: a built-in needs its source file
Importable(p) == IsBuiltin(p) => source_files[p].state = "file"

\* the tasks after the setup of the extension has added its cog (cog_load)
AfterSetup(p, tasks) == IF p = ReactionRolesPath THEN cog_load(tasks) ELSE tasks

\* the tasks after the cog of the extension has been removed (cog_unload)
AfterTeardown(p, tasks) == IF p = ReactionRolesPath THEN cog_unload(tasks) ELSE tasks

\* what a gmod subcommand leaves: the cogs and the tasks after the extension
\* call, and the registry, refreshed only if the extension call returned
GmodDone(sub, author_id, module, cogs, tasks, refreshed) ==
    LET mods == IF refreshed THEN refresh_module_info(cogs, bot_modules, source_files)
                ELSE bot_modules
    IN  /\ Len(tasks) <= 2 * MaxReady
        /\ bot_cogs' = cogs
        /\ background_tasks' = tasks
        /\ bot_modules' = mods
        /\ last_op' = [name |-> sub, guild |-> 0,
                       arg |-> [module |-> module, refreshed |-> refreshed,
                                changed |-> mods # bot_modules]]
        /\ UNCHANGED <<storeVars, write_failures, calls, dispatched, platform_messages,
                       cleanup, configVars, source_files, ready, prefix_log>>

\* gmod load MODULE: load_extension raises if the extension is loaded already
\* or its import fails
GmodLoad(author_id, module) ==
    LET ok == /\ IsGod(author_id)
              /\ module # core_path
              /\ ~Active(module)
              /\ Importable(module)
    IN  IF ok
        THEN GmodDone("gmod load", author_id, module, Append(bot_cogs, Cog(module)),
                      AfterSetup(module, background_tasks), TRUE)
        ELSE GmodDone("gmod load", author_id, module, bot_cogs, background_tasks, FALSE)

\* gmod unload MODULE: unload_extension raises if the extension is not loaded
GmodUnload(author_id, module) ==
    LET ok == /\ IsGod(author_id)
              /\ module # core_path
              /\ Active(module)
    IN  IF ok
        THEN GmodDone("gmod unload", author_id, module, Remove(bot_cogs, Cog(module)),
                      AfterTeardown(module, background_tasks), TRUE)
        ELSE GmodDone("gmod unload", author_id, module, bot_cogs, background_tasks, FALSE)

\* gmod reload MODULE: reload_extension removes the cog and loads the extension
\* again; if that fails it calls the setup of the old module, which adds the
\* old cog again, and raises
GmodReload(author_id, module) ==
    LET attempted == /\ IsGod(author_id)
                     /\ module # core_path
                     /\ Active(module)
    IN  IF attempted
        THEN GmodDone("gmod reload", author_id, module,
                      Append(Remove(bot_cogs, Cog(module)), Cog(module)),
                      AfterSetup(module, AfterTeardown(module, background_tasks)),
                      Importable(module))
        ELSE GmodDone("gmod reload", author_id, module, bot_cogs, background_tasks, FALSE)

\* the stat command refreshes the registry if it has not as many Modules as
\* there are cogs
Stat ==
    LET refreshed == Len(bot_cogs) # Len(bot_modules)
        mods == IF refreshed
                THEN refresh_module_info(bot_cogs, bot_modules, source_files)
                ELSE bot_modules
    IN  /\ bot_modules' = mods
        /\ last_op' = [name |-> "stat", guild |-> 0,
                       arg |-> [module |-> "", refreshed |-> refreshed,
                                changed |-> mods # bot_modules]]
        /\ UNCHANGED <<storeVars, write_failures, rrVars, configVars, bot_cogs,
                       source_files, ready, prefix_log>>

\* the source file of a built-in module is edited, deleted or made unreadable
SourceChanged(p, f) ==
    /\ f # source_files[p]
    /\ source_files' = [source_files EXCEPT ![p] = f]
    /\ last_op' = [name |-> "source changed", guild |-> 0,
                   arg |-> [module |-> p, refreshed |-> FALSE, changed |-> FALSE]]
    /\ UNCHANGED <<storeVars, write_failures, rrVars, configVars, bot_cogs,
                   bot_modules, ready, prefix_log>>

\* the extensions gmod is called with
ExtensionInputs == {ReactionRolesPath, ExternalPath, core_path}

ModNext ==
    \/ \E a \in AuthorInputs, m \in ExtensionInputs : GmodLoad(a, m)
    \/ \E a \in AuthorInputs, m \in ExtensionInputs : GmodUnload(a, m)
    \/ \E a \in AuthorInputs, m \in ExtensionInputs : GmodReload(a, m)
    \/ Stat
    \/ \E f \in SourceFileInputs : SourceChanged(ReactionRolesPath, f)
    \/ OnReady

SpecMod == Init /\ [][ModNext]_vars

\* the state after construction on a data directory that holds 1.toml, written
\* by an earlier run in which guild 1 enabled the reactionroles module and rr
\* new stored a message with the pairing a -> 7
InitLife ==
    LET rr == ReactionRoleMessage(1, 10, FirstMessageId, "a" :> 7)
        rec == [ServerSettings(1) EXCEPT !.modules = <<"core", NAME>>,
                                         !.reactionroles = <<rr>>]
    IN  /\ server_settings = (1 :> rec)
        /\ default_server_settings = ServerSettings(0)
        /\ disk = (1 :> rec)
        /\ config = Config
        /\ config_file = Config
        /\ last_op = ConstructOp(1 :> rec)
        /\ background_tasks = <<>>
        /\ calls = {}
        /\ dispatched = 0
        /\ platform_messages =
               {[id |-> FirstMessageId, guild_id |-> 1, channel_id |-> 10,
                 reactions |-> {"a"}, deleted |-> FALSE]}
        /\ cleanup = CleanupIdle
        /\ write_failures = 0
        /\ prefix_log = [g \in Guilds |-> [last |-> <<>>, reread |-> FALSE]]
        /\ BotConstructed

LifeNext ==
    \/ OnReady
    \/ GmodUnload(900, ReactionRolesPath)
    \/ GmodLoad(900, ReactionRolesPath)
    \/ GmodReload(900, ReactionRolesPath)
    \/ TasksStart
    \/ TasksCancelled
    \/ \E g \in {1, None} : Dispatch(FALSE, g, FirstMessageId, 501, "a")
    \/ \E i \in 1..Len(background_tasks), cached \in BOOLEAN : HandlePayload(i, cached)
    \/ \E i \in 1..Len(background_tasks), fetched \in BOOLEAN : FetchMemberReturns(i, fetched)
    \/ \E i \in 1..Len(background_tasks), outcome \in RoleCallOutcomes :
           SetRoleReturns(i, outcome)

SpecLife == InitLife /\ [][LifeNext]_vars

\* the first ready event after the start of the bot
FirstReady == ~ready /\ OnReady

\* one connection without a reconnect: the listeners are created once, handle
\* reaction events with every outcome, and the module is unloaded
ListenNext ==
    \/ FirstReady
    \/ GmodUnload(900, ReactionRolesPath)
    \/ TasksStart
    \/ TasksCancelled
    \/ \E remove \in BOOLEAN, g \in {1, None} :
           Dispatch(remove, g, FirstMessageId, 501, "a")
    \/ \E i \in 1..Len(background_tasks), cached \in BOOLEAN : HandlePayload(i, cached)
    \/ \E i \in 1..Len(background_tasks), fetched \in BOOLEAN : FetchMemberReturns(i, fetched)
    \/ \E i \in 1..Len(background_tasks), outcome \in RoleCallOutcomes :
           SetRoleReturns(i, outcome)

SpecListen == InitLife /\ [][ListenNext]_vars

-----------------------------------------------------------------------------
(* ReactionRoles.cleanup, the sweep over the stored reaction-role messages *)

\* how many sweeps may be started
MaxSweeps == 2

\* the keys of server_settings in the order the sweep visits them
RECURSIVE GuildOrder(_)
GuildOrder(gs) ==
    IF gs = {} THEN <<>>
    ELSE LET g == CHOOSE x \in gs : \A y \in gs : x <= y
         IN  <<g>> \o GuildOrder(gs \ {g})

\* the sweep with every examined entry kept
KeepAll(alive_rrs, rr, resolved) == Append(alive_rrs, rr)

\* try: fetch_guild, fetch_channel, fetch_message; except Exception: dead += 1;
\* else: alive_rrs.append(rr)
KeepAlive(alive_rrs, rr, resolved) ==
    IF resolved THEN Append(alive_rrs, rr) ELSE alive_rrs

\* the list the inner loop iterates: ss.reactionroles of the ServerSettings
\* object that server_settings.items() yielded for the guild
SweptList(ss, c) ==
    IF c.stale THEN c.ss_rrs ELSE ss[c.guilds[c.k]].reactionroles

\* the iterator of server_settings.items() raises RuntimeError ("dictionary
\* changed size during iteration") when it is advanced after a key was added
DictChangedSize(ss, c) == Cardinality(DOMAIN ss) # Len(c.guilds)

\* cleanup from the head of its inner loop to its next await on the platform:
\* st holds server_settings, the files and the locals of the sweep. A guild
\* whose entries are all examined is written back with
\* set_reaction_role_messages(gid, alive_rrs) and the next guild is taken up,
\* unless the guild map has grown since the sweep began
RECURSIVE CleanupAdvance(_)
CleanupAdvance(st) ==
    LET c == st.c
    IN  IF c.k > Len(c.guilds) THEN [st EXCEPT !.c.pc = "idle"]
        ELSE LET g == c.guilds[c.k]
                 ss == [st.ss EXCEPT ![g].reactionroles = c.alive_rrs]
                 dk == [h \in DOMAIN st.dk \cup {g} |->
                           IF h = g THEN TomlDump(ss[g]) ELSE st.dk[h]]
                 done == [c EXCEPT !.written[g] = Append(@, c.alive_rrs),
                                   !.stale = FALSE, !.ss_rrs = <<>>]
             IN  IF c.i <= Len(SweptList(st.ss, c))
                 THEN [st EXCEPT !.c.pc = "fetch"]
                 ELSE IF DictChangedSize(ss, c)
                 THEN [ss |-> ss, dk |-> dk, c |-> [done EXCEPT !.pc = "raised"]]
                 ELSE CleanupAdvance(
                          [ss |-> ss, dk |-> dk,
                           c |-> [done EXCEPT !.k = c.k + 1, !.i = 1,
                                              !.alive_rrs = <<>>]])

\* what a step of the sweep leaves in the state
CleanupStep(st) ==
    /\ server_settings' = st.ss
    /\ disk' = st.dk
    /\ cleanup' = st.c
    /\ last_op' = IF st.c.pc = "idle"
                  THEN [name |-> "cleanup", guild |-> 0, arg |-> st.c.runs]
                  ELSE last_op
    /\ UNCHANGED <<default_server_settings, write_failures, background_tasks, calls,
                   dispatched, platform_messages, configVars, botVars, prefix_log>>

\* await self.cleanup() is entered
CleanupStart ==
    /\ cleanup.pc = "idle"
    /\ cleanup.runs < MaxSweeps
    /\ CleanupStep(CleanupAdvance(
           [ss |-> server_settings, dk |-> disk,
            c |-> [pc |-> "run", guilds |-> GuildOrder(DOMAIN server_settings),
                   k |-> 1, i |-> 1, alive_rrs |-> <<>>,
                   examined |-> [g \in DOMAIN server_settings |-> <<>>],
                   written |-> [g \in DOMAIN server_settings |-> <<>>],
                   runs |-> cleanup.runs + 1, stale |-> FALSE, ss_rrs |-> <<>>]]))

\* whether the message of rr is still on the platform
MessageExists(rr) ==
    \E msg \in platform_messages : msg.id = rr.message_id /\ ~msg.deleted

\* fetch_guild, fetch_channel and fetch_message of the entry under examination
\* return, or one of them raises: they resolve only if the message exists, and
\* any of them may raise for another reason
CleanupFetchReturns(resolved) ==
    LET g == cleanup.guilds[cleanup.k]
        rr == SweptList(server_settings, cleanup)[cleanup.i]
    IN  /\ cleanup.pc = "fetch"
        /\ resolved => MessageExists(rr)
        /\ CleanupStep(CleanupAdvance(
               [ss |-> server_settings, dk |-> disk,
                c |-> [cleanup EXCEPT
                          !.i = cleanup.i + 1,
                          !.alive_rrs = KeepAlive(cleanup.alive_rrs, rr, resolved),
                          !.examined[g] = Append(@, [rr |-> rr, resolved |-> resolved])]]))

\* a message rr new posted is deleted on the platform
MessageDeleted(id) ==
    /\ \E msg \in platform_messages : msg.id = id /\ ~msg.deleted
    /\ platform_messages' =
           {IF msg.id = id THEN [msg EXCEPT !.deleted = TRUE] ELSE msg :
               msg \in platform_messages}
    /\ UNCHANGED <<storeVars, write_failures, last_op, background_tasks, calls,
                   dispatched, cleanup, configVars, botVars, prefix_log>>

\* the state after construction on a data directory that holds 1.toml and
\* 2.toml, written by an earlier run in which both guilds enabled reactionroles
InitSweep ==
    LET rec(g) == [ServerSettings(g) EXCEPT !.modules = <<"core", NAME>>]
        files == [g \in Guilds |-> rec(g)]
    IN  /\ server_settings = files
        /\ default_server_settings = ServerSettings(0)
        /\ disk = files
        /\ config = Config
        /\ config_file = Config
        /\ last_op = ConstructOp(files)
        /\ background_tasks = <<>>
        /\ calls = {}
        /\ dispatched = 0
        /\ platform_messages = {}
        /\ cleanup = CleanupIdle
        /\ write_failures = 0
        /\ prefix_log = [g \in Guilds |-> [last |-> <<>>, reread |-> FALSE]]
        /\ BotConstructed

SweepNext ==
    \/ \E g \in Guilds, prs \in PairingInputs :
           ReactionRolesNew(Context(g, TRUE, {}), 10, prs, TRUE, TRUE, TRUE)
    \/ \E id \in {msg.id : msg \in platform_messages} : MessageDeleted(id)
    \/ CleanupStart
    \/ \E resolved \in BOOLEAN : CleanupFetchReturns(resolved)

SpecSweep == InitSweep /\ [][SweepNext]_vars

\* a sweep running while commands are handled: rr new in guild 1, gstate load
\* and gstate reload, and a prefix set in guild 2, which has no record yet; no
\* message is deleted and every fetch of the sweep resolves
ConcNext ==
    \/ \E prs \in PairingInputs :
           ReactionRolesNew(Context(1, TRUE, {}), 10, prs, TRUE, TRUE, TRUE)
    \/ CleanupStart
    \/ CleanupFetchReturns(TRUE)
    \/ \E dump \in BOOLEAN : Reload(dump, TRUE, {})
    \/ SetPrefix(2, "!", TRUE)

SpecConc == InitRR /\ [][ConcNext]_vars

-----------------------------------------------------------------------------
(* Core.manage_local_modules, and the commands of a guild together         *)

\* the longest list of enabled modules a guild may reach
MaxModules == 3

\* a command aimed at no module at all
IsCoreTargetNever(target) == FALSE

\* if target == "Core": "core module will forever be loaded"
IsCoreTarget(target) == target = "Core"

\* modules enable TARGET
ModulesEnable(ctx, target, write_ok) ==
    LET g == ctx.guild
        server_modules == get_server_specific_modules(g)
        proceeds == /\ is_user_privileged(ctx, "Core")
                    /\ ~IsCoreTarget(target)
                    /\ ~InSeq(target, server_modules)
                    /\ target \in BotModuleNames
    IN  /\ g # None
        /\ Len(server_modules) < MaxModules
        /\ IF proceeds
           THEN set_server_specific_modules(g, Append(server_modules, target), write_ok)
           ELSE write_ok /\ UNCHANGED <<server_settings, disk, write_failures>>
        /\ last_op' = [name |-> "modules enable", guild |-> g,
                       arg |-> [target |-> target, done |-> proceeds]]
        /\ UNCHANGED <<default_server_settings, rrVars, botVars, configVars, prefix_log>>

\* modules disable TARGET: server_modules is the list the getter returned, and
\* server_modules.remove changes that list where it is held
ModulesDisable(ctx, target, write_ok) ==
    LET g == ctx.guild
        server_modules == get_server_specific_modules(g)
        proceeds == /\ is_user_privileged(ctx, "Core")
                    /\ ~IsCoreTarget(target)
                    /\ InSeq(Lower(target), server_modules)
                    /\ target \in BotModuleNames
        removed == Remove(server_modules, Lower(target))
    IN  /\ g # None
        /\ IF proceeds
           THEN /\ set_server_specific_modules(g, removed, write_ok)
                /\ default_server_settings' =
                       IF g \in DOMAIN server_settings THEN default_server_settings
                       ELSE [default_server_settings EXCEPT !.modules = removed]
           ELSE write_ok /\ UNCHANGED <<storeVars, write_failures>>
        /\ last_op' = [name |-> "modules disable", guild |-> g,
                       arg |-> [target |-> target, done |-> proceeds]]
        /\ UNCHANGED <<rrVars, botVars, configVars, prefix_log>>

TargetInputs == {"Core", "core", "ReactionRoles", "reactionroles"}

\* the authors of the commands: an administrator of each guild, and a member
\* of guild 1 with role 7
GuildContexts == {Context(1, TRUE, {}), Context(2, TRUE, {}), Context(1, FALSE, {7})}

CmdNext ==
    \/ \E ctx \in GuildContexts, t \in TargetInputs : ModulesEnable(ctx, t, TRUE)
    \/ \E ctx \in GuildContexts, t \in TargetInputs : ModulesDisable(ctx, t, TRUE)
    \/ \E ctx \in GuildContexts, c \in TextChannels \cup {11},
          sent \in BOOLEAN, seeded \in BOOLEAN :
           ReactionRolesNew(ctx, c, "a" :> 7, sent, seeded, TRUE)
    \/ \E f \in {"allow", "remove"} :
           ModuleAccessSet(Context(1, TRUE, {}), 7, NAME, f, TRUE)

SpecCmd == Init /\ [][CmdNext]_vars

-----------------------------------------------------------------------------
(* Claims about reload                                                     *)

\* C17: reload(dump=true, load=true) is idempotent: when a run that returned no
\* error is followed at once by a second run, the global config and every guild
\* record are after the second run what they were after the first, and the
\* second run, none of whose writes fails, returns no error.
C17_ReloadIdempotent ==
    [][(/\ last_op.name = "reload"
        /\ last_op.arg.dump /\ last_op.arg.load
        /\ last_op.arg.errors = {}
        /\ last_op'.name = "reload"
        /\ last_op'.arg.dump /\ last_op'.arg.load) =>
            /\ config' = config
            /\ server_settings' = server_settings
            /\ last_op'.arg.write_fails = {} =>
                   /\ last_op'.arg.errors = {}
                   /\ disk' = disk /\ config_file' = config_file
      ]_vars

\* two error-free reloads in a row over two guild records with set prefixes
C17_Witness ==
    /\ last_op.name = "reload"
    /\ last_op.arg.repeat
    /\ last_op.arg.errors = {}
    /\ Cardinality(DOMAIN server_settings) = 2
    /\ \A g \in DOMAIN server_settings :
           /\ prefix_log[g].reread
           /\ server_settings[g] = ParseServerSettings(disk[g])
    /\ \E g \in DOMAIN server_settings : server_settings[g].prefix = "!"

\* C18: reload treats every record on its own. A record whose write-out fails
\* gets a save error, is not read back and keeps its in-memory value; every
\* other record is written when dump is asked and read back when load is asked;
\* a record whose read-back fails gets a load error and keeps its in-memory
\* value, and the records after it are still processed.
C18_ReloadPerRecord ==
    [][last_op'.name = "reload" =>
        LET a == last_op'.arg
            failed(r) == a.dump /\ r \in a.write_fails
        IN  /\ \A g \in DOMAIN server_settings :
                  /\ g \in DOMAIN server_settings'
                  /\ failed(g) =>
                         /\ <<"save", g>> \in a.errors
                         /\ <<"load", g>> \notin a.errors
                         /\ server_settings'[g] = server_settings[g]
                         /\ g \in DOMAIN disk => (g \in DOMAIN disk' /\ disk'[g] = disk[g])
                         /\ g \notin DOMAIN disk => g \notin DOMAIN disk'
                  /\ (a.dump /\ ~failed(g)) =>
                         /\ <<"save", g>> \notin a.errors
                         /\ disk'[g] = TomlDump(server_settings[g])
                  /\ (a.load /\ ~failed(g)) =>
                         IF g \in DOMAIN disk' /\ Parses(disk'[g])
                         THEN /\ server_settings'[g] = ParseServerSettings(disk'[g])
                              /\ <<"load", g>> \notin a.errors
                         ELSE /\ server_settings'[g] = server_settings[g]
                              /\ <<"load", g>> \in a.errors
                  /\ ~a.load => server_settings'[g] = server_settings[g]
            /\ failed(ConfigRecord) =>
                  /\ <<"save", ConfigRecord>> \in a.errors
                  /\ config' = config /\ config_file' = config_file
            /\ (a.dump /\ ~failed(ConfigRecord)) => config_file' = config
            /\ (a.load /\ ~failed(ConfigRecord)) => config' = config_file'
      ]_vars

\* a reload of two guild records and the config in which the write-out of one
\* guild failed while its file held another value, and the other guild was
\* written and read back
C18_Witness ==
    /\ last_op.name = "reload"
    /\ last_op.arg.dump /\ last_op.arg.load
    /\ \E g, h \in DOMAIN server_settings :
           /\ g # h
           /\ last_op.arg.write_fails = {g}
           /\ last_op.arg.errors = {<<"save", g>>}
           /\ g \in DOMAIN disk /\ disk[g] # TomlDump(server_settings[g])
           /\ disk[h] = TomlDump(server_settings[h])

\* a load-only reload in which the read-back of one guild failed, its record
\* kept, and the other guild was read back
C18_WitnessLoad ==
    /\ last_op.name = "reload"
    /\ ~last_op.arg.dump /\ last_op.arg.load
    /\ \E g, h \in DOMAIN server_settings :
           /\ g # h
           /\ last_op.arg.errors = {<<"load", g>>}
           /\ g \notin DOMAIN disk
           /\ h \in DOMAIN disk /\ server_settings[h] = ParseServerSettings(disk[h])

\* C19: construction isolates a malformed guild file. Every guild file found
\* that holds a valid record is loaded, a guild whose file is malformed gets no
\* record and reads as the default settings, and load_success + load_failure
\* is the number of guild files found.
C19_MalformedFileIsolated ==
    last_op.name = "init" =>
        /\ \A g \in last_op.arg.found :
              IF Parses(disk[g])
              THEN /\ g \in DOMAIN server_settings
                   /\ server_settings[g] = ParseServerSettings(disk[g])
              ELSE /\ g \notin DOMAIN server_settings
                   /\ get_server_specific_prefix(g) = PREFIX
                   /\ get_server_specific_modules(g) = ServerSettings(0).modules
                   /\ get_reaction_role_messages(g, None) = <<>>
                   /\ get_all_privileged_roles(g) = EmptyMap
        /\ DOMAIN server_settings \subseteq last_op.arg.found
        /\ last_op.arg.load_success + last_op.arg.load_failure
               = Cardinality(last_op.arg.found)

\* a construction that found a malformed file next to a valid one
C19_Witness ==
    /\ last_op.name = "init"
    /\ \E g, h \in last_op.arg.found :
           /\ ~Parses(disk[g])
           /\ Parses(disk[h]) /\ h \in DOMAIN server_settings
           /\ get_server_specific_prefix(h) # PREFIX
    /\ last_op.arg.load_success = 1
    /\ last_op.arg.load_failure = 1

\* C20: every error reload returned to a gstate dump, load or reload command is
\* in a reply the command sent, however many errors there are and however long
\* their text, and the success reaction is added exactly when there is no error.
C20_ErrorsSurfaced ==
    (last_op.name = "gstate" /\ last_op.arg.ran) =>
        /\ \A i \in 1..Len(last_op.arg.errors) :
              \E j \in 1..Len(last_op.arg.replies) :
                  /\ last_op.arg.replies[j].delivered
                  /\ InSeq(last_op.arg.errors[i], last_op.arg.replies[j].entries)
        /\ last_op.arg.reaction <=> last_op.arg.errors = <<>>

-----------------------------------------------------------------------------
(* Claims about the reaction-role engine                                   *)

\* the ReactionRoleMessages stored for guild g whose message_id is m
StoredFor(g, m) ==
    {rr \in Elements(SettingsOf(g).reactionroles) : rr.message_id = m}

MessageIdInputs == {FirstMessageId, FirstMessageId + 1, OtherMessageId}

\* C1: every role call issued for a reaction event has a ReactionRoleMessage
\* stored for exactly the event's guild and message, with the event's emoji
\* among the keys of its roles; an event on another message id causes no call.
C1_CallOnlyForStoredMessage ==
    \A c \in calls :
        \E rr \in StoredFor(c.event.guild_id, c.event.message_id) :
            c.event.emoji \in DOMAIN rr.roles

\* C2: get_reaction_role_messages(g, m) returns at most one entry, every entry
\* it returns has message_id = m, it is empty when g stores no entry with
\* message_id = m, and without a message id it returns all entries of g.
C2_FilterByMessageId ==
    \A g \in Guilds :
        /\ get_reaction_role_messages(g, None) = SettingsOf(g).reactionroles
        /\ \A m \in MessageIdInputs :
              LET returned == get_reaction_role_messages(g, m)
              IN  /\ Len(returned) <= 1
                  /\ \A i \in 1..Len(returned) : returned[i].message_id = m
                  /\ StoredFor(g, m) = {} => returned = <<>>

\* C3: an event on a stored message with a configured emoji leads to exactly
\* one call: add_roles on an add-event and remove_roles on a remove-event, of
\* the role configured for the emoji, on the member who reacted, and no
\* second call for the same event.
C3_ExactlyOneCallPerEvent ==
    \A c \in calls :
        \A rr \in StoredFor(c.event.guild_id, c.event.message_id) :
            c.event.emoji \in DOMAIN rr.roles =>
                /\ c.op = (IF c.event.event_type = "REACTION_REMOVE"
                           THEN "remove_roles" ELSE "add_roles")
                /\ c.role = rr.roles[c.event.emoji]
                /\ c.member = c.event.user_id
                /\ \A d \in calls : d.event.id = c.event.id => d = c

\* the entries of a sweep's examination record that resolved, in order
RECURSIVE ResolvedOf(_)
ResolvedOf(examined) ==
    IF examined = <<>> THEN <<>>
    ELSE IF Head(examined).resolved
         THEN <<Head(examined).rr>> \o ResolvedOf(Tail(examined))
         ELSE ResolvedOf(Tail(examined))

\* C13: a sweep writes the list of every guild back exactly once, and what it
\* writes is the sub-list, in the original order, of the entries it examined
\* that resolved. The stored list of a guild starts with that sub-list (rr new
\* can only have appended to it since) and holds no entry that failed to
\* resolve; when the sweep is over every guild has been written.
C13_SweepKeepsResolved ==
    /\ \A g \in DOMAIN cleanup.written :
           LET w == cleanup.written[g]
               stored == get_reaction_role_messages(g, None)
           IN  /\ Len(w) <= 1
               /\ Len(w) = 1 =>
                      /\ w[1] = ResolvedOf(cleanup.examined[g])
                      /\ Len(stored) >= Len(w[1])
                      /\ SubSeq(stored, 1, Len(w[1])) = w[1]
                      /\ \A i \in 1..Len(cleanup.examined[g]) :
                             ~cleanup.examined[g][i].resolved =>
                                 ~InSeq(cleanup.examined[g][i].rr, stored)
    /\ (cleanup.pc = "idle" /\ cleanup.runs > 0) =>
           \A g \in DOMAIN server_settings :
               g \in DOMAIN cleanup.written /\ Len(cleanup.written[g]) = 1

\* a finished sweep that examined two entries of one guild, dropped the one
\* whose message was deleted and kept the other
C13_Witness ==
    /\ last_op.name = "cleanup"
    /\ cleanup.pc = "idle"
    /\ \E g \in DOMAIN cleanup.written :
           /\ Len(cleanup.examined[g]) = 2
           /\ ~cleanup.examined[g][1].resolved
           /\ cleanup.examined[g][2].resolved
           /\ ~MessageExists(cleanup.examined[g][1].rr)
           /\ get_reaction_role_messages(g, None) = <<cleanup.examined[g][2].rr>>

\* C14: a stored ReactionRoleMessage leaves the list of its guild only when
\* its message no longer exists on the platform: every message rr new posted,
\* seeded and stored an entry for, and that still exists, has its entry in the
\* stored list of its guild, whatever fetches failed during a sweep.
C14_ExistingMessageKept ==
    \A msg \in platform_messages :
        (msg.reactions # {} /\ ~msg.deleted) =>
            \E rr \in Elements(get_reaction_role_messages(msg.guild_id, None)) :
                rr.message_id = msg.id

\* C15: every ReactionRoleMessage in a stored list refers to a message that rr
\* new posted in that channel and seeded with a reaction for every configured
\* emoji, the posting and seeding coming before the append; an rr new whose
\* channel did not resolve, whose send failed or whose seeding failed leaves
\* the stored list as it was.
C15_PostedAndSeededBeforeStored ==
    /\ \A g \in DOMAIN server_settings :
           \A rr \in Elements(server_settings[g].reactionroles) :
               \E msg \in platform_messages :
                   /\ msg.id = rr.message_id
                   /\ msg.channel_id = rr.channel_id
                   /\ msg.guild_id = rr.guild_id
                   /\ DOMAIN rr.roles \subseteq msg.reactions
    /\ (last_op.name = "rr new" /\ ~last_op.arg.seeded) =>
           /\ ~last_op.arg.stored
           /\ get_reaction_role_messages(last_op.guild, None) = last_op.arg.before

\* an rr new whose message was posted but not seeded, after one that stored
C15_Witness ==
    /\ last_op.name = "rr new"
    /\ last_op.arg.sent /\ ~last_op.arg.seeded
    /\ Len(last_op.arg.before) = 1
    /\ get_reaction_role_messages(last_op.guild, None) = last_op.arg.before
    /\ \E msg \in platform_messages : msg.reactions = {}

\* C16: common.default_server_settings is never changed: after any sequence
\* of commands, among them modules disable and rr new in a guild that has no
\* record, its fields hold their initial values, and every guild without a
\* record reads as the defaults.
C16_DefaultNeverMutated ==
    /\ default_server_settings = ServerSettings(0)
    /\ \A g \in Guilds \ DOMAIN server_settings :
           /\ get_server_specific_prefix(g) = PREFIX
           /\ get_server_specific_modules(g) = ServerSettings(0).modules
           /\ get_reaction_role_messages(g, None) = <<>>
           /\ get_all_privileged_roles(g) = EmptyMap

\* rr new by an administrator of a guild that has no record, when another
\* guild has disabled a module and stored a reaction-role message before
C16_Witness ==
    /\ last_op.name = "rr new"
    /\ last_op.guild \notin DOMAIN server_settings
    /\ last_op.arg.before = <<>>
    /\ \E h \in DOMAIN server_settings :
           /\ server_settings[h].reactionroles # <<>>
           /\ ~InSeq(NAME, server_settings[h].modules)

-----------------------------------------------------------------------------
(* Privileges                                                              *)

\* the allow list stored for (g, module), empty when nothing is stored
StoredAllow(g, module) ==
    IF g \in DOMAIN server_settings /\ module \in DOMAIN server_settings[g].privileged
    THEN Elements(server_settings[g].privileged[module].allow)
    ELSE {}

StoredDeny(g, module) ==
    IF g \in DOMAIN server_settings /\ module \in DOMAIN server_settings[g].privileged
    THEN Elements(server_settings[g].privileged[module].deny)
    ELSE {}

\* C4: after any sequence of moduleaccess set commands, no role id is in both
\* the allow list and the deny list of one (guild, module) privileges record.
C4_AllowDenyDisjoint ==
    \A g \in DOMAIN server_settings :
        \A m \in DOMAIN server_settings[g].privileged :
            StoredAllow(g, m) \cap StoredDeny(g, m) = {}

\* an allow that succeeded for a role that was denied, next to another denied role
C4_Witness ==
    /\ last_op.name = "moduleaccess set"
    /\ last_op.arg.setting = "allow"
    /\ last_op.arg.returned
    /\ InSeq(last_op.arg.role_id, last_op.arg.before.deny)
    /\ last_op.arg.role_id \in StoredAllow(last_op.guild, last_op.arg.module)
    /\ StoredDeny(last_op.guild, last_op.arg.module) # {}

\* C5: for a caller in a guild who is no administrator and a non-empty module
\* name, is_user_privileged returns true exactly when one of the caller's roles
\* is in the allow list stored for (guild, lower-cased module); deny plays no part.
C5_PrivilegedIffAllowed ==
    (/\ last_op.name = "is_user_privileged"
     /\ last_op.guild # None
     /\ ~last_op.arg.ctx.admin
     /\ last_op.arg.module # "") =>
        (last_op.arg.returned <=>
            last_op.arg.ctx.roles
                \cap StoredAllow(last_op.guild, Lower(last_op.arg.module)) # {})

\* a member with one role in allow and another in deny of the module is privileged
C5_Witness ==
    /\ last_op.name = "is_user_privileged"
    /\ last_op.guild # None
    /\ ~last_op.arg.ctx.admin
    /\ last_op.arg.module = "ReactionRoles"
    /\ last_op.arg.ctx.roles \cap StoredAllow(last_op.guild, "reactionroles") # {}
    /\ last_op.arg.ctx.roles \cap StoredDeny(last_op.guild, "reactionroles") # {}
    /\ last_op.arg.returned

\* C6: is_user_privileged returns true for every administrator of a guild,
\* whatever the role set, the module name (the empty one too) and the stored
\* allow and deny lists.
C6_AdministratorPrivileged ==
    (/\ last_op.name = "is_user_privileged"
     /\ last_op.guild # None
     /\ last_op.arg.ctx.admin) =>
        last_op.arg.returned

\* an administrator holding a denied role, asked with no module name
C6_Witness ==
    /\ last_op.name = "is_user_privileged"
    /\ last_op.guild # None
    /\ last_op.arg.ctx.admin
    /\ last_op.arg.module = ""
    /\ last_op.arg.ctx.roles \cap StoredDeny(last_op.guild, "core") # {}
    /\ last_op.arg.returned

C12_SecondRunRevokes ==
    [][(/\ last_op.name = "moduleaccess set"
        /\ last_op.arg.returned
        /\ last_op.arg.setting \in {"allow", "deny"}
        /\ last_op'.name = "moduleaccess set"
        /\ last_op'.guild = last_op.guild
        /\ last_op'.arg.accepted
        /\ last_op'.arg.role_id = last_op.arg.role_id
        /\ last_op'.arg.module = last_op.arg.module
        /\ last_op'.arg.setting = last_op.arg.setting) =>
            LET after == get_module_privileges(last_op.guild, last_op.arg.module)'
            IN  IF last_op.arg.setting = "allow"
                THEN ~InSeq(last_op.arg.role_id, after.allow)
                ELSE ~InSeq(last_op.arg.role_id, after.deny)
      ]_vars

-----------------------------------------------------------------------------
(* The settings store: prefix, enabled modules, write-through              *)

\* C7 (as stated): get_server_specific_prefix(g) is the global default while no
\* prefix was ever set for g, and otherwise exactly the value passed to the most
\* recent set_server_specific_prefix(g, p), the empty string included.
C7_PrefixIsLastSet ==
    \A g \in Guilds :
        get_server_specific_prefix(g) =
            IF prefix_log[g].last = <<>> THEN PREFIX ELSE prefix_log[g].last[1]

\* C7 (amended): the global default while no prefix was ever set for g; after
\* set_server_specific_prefix(g, p), p when p is not empty and the global default
\* when p is empty, until the next set for g or a reload that reads the record of
\* g back from its file.
C7_PrefixRoundTrip ==
    \A g \in Guilds :
        /\ prefix_log[g].last = <<>> => get_server_specific_prefix(g) = PREFIX
        /\ prefix_log[g].last # <<>> /\ ~prefix_log[g].reread =>
               get_server_specific_prefix(g) =
                   IF prefix_log[g].last[1] = "" THEN PREFIX ELSE prefix_log[g].last[1]

\* one guild reads back the prefix it was given, another was given the empty
\* prefix, a third case (no set at all) is every guild in the initial state
C7_Witness ==
    \E g, h \in Guilds :
        /\ prefix_log[g] = [last |-> <<"!">>, reread |-> FALSE]
        /\ get_server_specific_prefix(g) = "!"
        /\ prefix_log[h] = [last |-> <<"">>, reread |-> FALSE]
        /\ get_server_specific_prefix(h) = PREFIX

SetterNames ==
    {"set_server_specific_prefix", "set_server_specific_modules",
     "set_module_privileges", "set_all_privileged_roles",
     "set_reaction_role_messages"}

\* C8: write-through. When a store mutator has returned, the file of that guild
\* holds the in-memory record of that guild, also when the write failed.
C8_WriteThrough ==
    last_op.name \in SetterNames =>
        /\ last_op.guild \in DOMAIN disk
        /\ disk[last_op.guild] = server_settings[last_op.guild]

\* C9: for a guild with no record, get_server_specific_modules returns the list
\* whose only member is "core", so the lower-cased name of the core module is
\* found in it.
C9_DefaultModulesIsCore ==
    \A g \in Guilds :
        g \notin DOMAIN server_settings =>
            /\ get_server_specific_modules(g) = <<"core">>
            /\ InSeq(Lower("Core"), get_server_specific_modules(g))

\* C10: a step set_server_specific_modules(g, M) leaves g with a record whose
\* enabled modules are the lower-cased names of M, in order, and leaves the
\* enabled modules of every other guild as they were; a setter called for
\* another guild does not change the enabled modules of g.
C10_SetModulesRoundTrip ==
    [][\A g \in Guilds :
          /\ (last_op'.name = "set_server_specific_modules" /\ last_op'.guild = g) =>
                 /\ g \in DOMAIN server_settings'
                 /\ get_server_specific_modules(g)' =
                        [i \in 1..Len(last_op'.arg) |-> Lower(last_op'.arg[i])]
                 /\ \A h \in Guilds \ {g} :
                        get_server_specific_modules(h)' = get_server_specific_modules(h)
          /\ (last_op'.name \in SetterNames /\ last_op'.guild # g) =>
                 get_server_specific_modules(g)' = get_server_specific_modules(g)
      ]_vars

\* modules were set from names with capitals for a guild that had no record,
\* while another guild holds a different list
C10_Witness ==
    /\ last_op.name = "set_server_specific_modules"
    /\ last_op.arg = <<"Core", "ReactionRoles">>
    /\ get_server_specific_modules(last_op.guild) = <<"core", "reactionroles">>
    /\ \E h \in DOMAIN server_settings \ {last_op.guild} :
           get_server_specific_modules(h) = <<"core">>

-----------------------------------------------------------------------------
(* Claims about the module registry                                        *)

\* the commands that may call refresh_module_info
RefreshOps == {"gmod load", "gmod unload", "gmod reload", "stat"}

\* the module whose source file the k-th cog is fingerprinted from
RECURSIVE FingerprintedAt(_, _)
FingerprintedAt(cogs, k) ==
    IF IsBuiltin(cogs[k].path) \/ k = 1 THEN cogs[k].path
    ELSE FingerprintedAt(cogs, k - 1)

\* C21: no step removes a Module from the registry or moves it, no path is
\* ever registered twice, and after a command that refreshed the registry
\* every Module whose path is not the path of an active cog has loaded = FALSE,
\* while a Module that was registered and inactive and whose cog is active
\* again has loaded = TRUE.
C21_RegistryRetainsAndMarks ==
    [][/\ Len(bot_modules') >= Len(bot_modules)
       /\ \A i \in 1..Len(bot_modules) : bot_modules'[i].path = bot_modules[i].path
       /\ \A i, j \in 1..Len(bot_modules') :
              bot_modules'[i].path = bot_modules'[j].path => i = j
       /\ (last_op'.name \in RefreshOps /\ last_op'.arg.refreshed) =>
              \A i \in 1..Len(bot_modules') :
                  LET m == bot_modules'[i]
                  IN  /\ ~InSeq(Cog(m.path), bot_cogs') => ~m.loaded
                      /\ (/\ InSeq(Cog(m.path), bot_cogs')
                          /\ i <= Len(bot_modules)
                          /\ ~InSeq(Cog(m.path), bot_cogs)) => m.loaded]_vars

\* C22: refreshing the registry a second time with the same cogs and the same
\* source files leaves it as the first refresh left it.
C22_RefreshIdempotent ==
    LET once == refresh_module_info(bot_cogs, bot_modules, source_files)
    IN  refresh_module_info(bot_cogs, once, source_files) = once

\* stat has refreshed the registry and the refresh changed it
C22_Witness ==
    /\ last_op.name = "stat"
    /\ last_op.arg.refreshed
    /\ last_op.arg.changed
    /\ \E i \in 1..Len(bot_modules) : ~bot_modules[i].loaded

\* C23: after a command that refreshed the registry, an active cog whose source
\* file is missing or cannot be hashed has the registry record it had before
\* (none if it had none), and every other active cog is registered as loaded
\* with the hash of its file.
C23_FailedFingerprintKeepsState ==
    [][(last_op'.name \in RefreshOps /\ last_op'.arg.refreshed) =>
          \A k \in 1..Len(bot_cogs') :
              LET cog == bot_cogs'[k]
                  f == source_files[FingerprintedAt(bot_cogs', k)]
              IN  IF f.state # "file"
                  THEN /\ \A i \in 1..Len(bot_modules) :
                              bot_modules[i].path = cog.path =>
                                  bot_modules'[i] = bot_modules[i]
                       /\ ~already_registered(bot_modules, cog.path) =>
                              ~already_registered(bot_modules', cog.path)
                  ELSE \E i \in 1..Len(bot_modules') :
                           bot_modules'[i] =
                               Module(cog.name, cog.path, TRUE,
                                      Take(hash_file(f), HashWidth))]_vars

-----------------------------------------------------------------------------
(* Claims about the life of the listener tasks                             *)

\* the tasks that are not done and have no cancellation pending
Listening(remove) ==
    {i \in 1..Len(background_tasks) :
        /\ background_tasks[i].remove = remove
        /\ background_tasks[i].pc \notin {"cancelling", "cancelled", "raised"}}

\* C24: whenever the ReactionRoles cog is not loaded, that is from the moment
\* cog_unload has returned, every listener task the module created is done.
C24_UnloadAwaitsTasks ==
    ~Active(ReactionRolesPath) =>
        \A i \in 1..Len(background_tasks) :
            background_tasks[i].pc \in {"cancelled", "raised"}

\* C25: at every moment at most one listener task consumes the reaction-add
\* stream and at most one the reaction-remove stream, and no two role calls
\* are made for the same reaction event.
C25_OneListenerPerStream ==
    /\ \A remove \in BOOLEAN : Cardinality(Listening(remove)) <= 1
    /\ \A c, d \in calls : c.event.id = d.event.id => c.task = d.task

\* C28: a listener task is cancelled only while it awaits the next event:
\* no task with a cancellation pending is in an iteration that has consumed
\* an event, found it configured and not yet completed its role call.
C28_CancelOnlyBetweenEvents ==
    \A i \in 1..Len(background_tasks) :
        background_tasks[i].pc = "cancelling" => background_tasks[i].role = 0

\* C29: no iteration of a listener ends the task: from the return of wait_for,
\* of fetch_member or of the role call, whatever the outcome, the task goes on
\* to the next await of the iteration or back to awaiting the next event; a
\* task is done only after cog_unload cancelled it.
C29_ListenerSurvives ==
    [][\A i \in 1..Len(background_tasks) :
          LET t == background_tasks[i]
              u == background_tasks'[i]
          IN  /\ u.pc # "raised"
              /\ u.pc = "cancelled" => t.pc \in {"cancelling", "cancelled"}
              /\ (u.pc = "cancelling" /\ t.pc # "cancelling") =>
                     last_op'.name \in {"gmod unload", "gmod reload"}
              /\ (t.pc = "resumed" /\ u.pc # t.pc) =>
                     u.pc \in {"fetch_member", "wait_for", "cancelling"}
              /\ (t.pc = "fetch_member" /\ u.pc # t.pc) =>
                     u.pc \in {"set_role", "wait_for", "cancelling"}
              /\ (t.pc = "set_role" /\ u.pc # t.pc) =>
                     u.pc \in {"wait_for", "cancelling"}]_vars

\* a role call was denied, another failed, and the tasks that made them await
\* the next event
C29_Witness ==
    /\ \E c \in calls : c.outcome = "forbidden" /\ background_tasks[c.task].pc = "wait_for"
    /\ \E c \in calls : c.outcome = "failed" /\ background_tasks[c.task].pc = "wait_for"

-----------------------------------------------------------------------------
(* Claims about the sweep running beside the commands                      *)

\* C26: no task is ever suspended at an await on the platform between reading
\* the reaction-role list of a guild and writing it back: of the mutators,
\* which are single steps here, only the sweep has such awaits, so the sweep
\* is never suspended at a fetch with entries of the guild left to examine
\* and alive_rrs still to be written.
C26_NoSuspensionMidMutation == cleanup.pc # "fetch"

\* C27: when a sweep has finished, every message that rr new posted, seeded
\* and stored, that still exists and that the sweep did not find unresolved,
\* has its entry in the stored list of its guild.
C27_NoLostUpdate ==
    (cleanup.pc = "idle" /\ cleanup.runs > 0) =>
        \A msg \in platform_messages :
            (/\ msg.reactions # {}
             /\ ~msg.deleted
             /\ \A g \in DOMAIN cleanup.examined :
                    \A j \in 1..Len(cleanup.examined[g]) :
                        cleanup.examined[g][j].rr.message_id = msg.id =>
                            cleanup.examined[g][j].resolved) =>
                \E rr \in Elements(get_reaction_role_messages(msg.guild_id, None)) :
                    rr.message_id = msg.id

\* C30: no sweep ends with an exception: the iteration over the guild map
\* never raises, whatever records other tasks create while the sweep is
\* suspended in a fetch.
C30_SweepNeverRaises == cleanup.pc # "raised"

-----------------------------------------------------------------------------
(* Claims about the delivery of reaction events                            *)

\* C31: whenever a reaction with the configured emoji a on the stored message
\* of guild 1 is dispatched while a listener of its stream has started and is
\* neither done nor cancelled, a listener task holds that event after the
\* dispatch, so that the iteration that makes its role call can follow.
C31_NoConfiguredEventLost ==
    [][\A remove \in BOOLEAN :
          (/\ Dispatch(remove, 1, FirstMessageId, 501, "a")
           /\ \E i \in Listening(remove) : background_tasks[i].pc # "start") =>
              \E i \in 1..Len(background_tasks') :
                  background_tasks'[i].payload.id = dispatched']_vars

-----------------------------------------------------------------------------
(* Calls of the store's getters                                            *)

\* the dict after a lookup that inserts the default for a missing guild
LookedUpSetdefault(ss, g) ==
    IF g \in DOMAIN ss THEN ss ELSE ss @@ (g :> default_server_settings)

\* the dict after self.server_settings.get(guild_id, default): a lookup with a
\* default inserts nothing
LookedUp(ss, g) == ss

GetterNames ==
    {"get_server_specific_prefix", "get_server_specific_modules",
     "get_module_privileges", "get_all_privileged_roles",
     "get_reaction_role_messages"}

\* what the getter called name returns for guild g; the privileges are asked
\* for the module reactionroles, the reaction-role messages without message id
GetterReturns(name, g) ==
    CASE name = "get_server_specific_prefix" -> get_server_specific_prefix(g)
      [] name = "get_server_specific_modules" -> get_server_specific_modules(g)
      [] name = "get_module_privileges" -> get_module_privileges(g, NAME)
      [] name = "get_all_privileged_roles" -> get_all_privileged_roles(g)
      [] OTHER -> get_reaction_role_messages(g, None)

\* a call of one of the five getters
Get(name, g) ==
    /\ server_settings' = LookedUp(server_settings, g)
    /\ last_op' = [name |-> name, guild |-> g, arg |-> GetterReturns(name, g)]
    /\ UNCHANGED <<default_server_settings, disk, write_failures, prefix_log,
                   rrVars, botVars, configVars>>

GetNext ==
    \/ \E g \in Guilds, p \in PrefixInputs : SetPrefix(g, p, TRUE)
    \/ \E g \in SecondaryGuilds, ms \in ModuleListInputs : SetModules(g, ms, TRUE)
    \/ \E g \in Guilds : \E content \in FileInputs(g) : FileEdited(g, content)
    \/ \E dump, load \in BOOLEAN : Reload(dump, load, {})
    \/ \E name \in GetterNames, g \in Guilds : Get(name, g)

SpecGet == Init /\ [][GetNext]_vars

\* C32: every step keeps every known guild id in the map, and a call of a
\* getter leaves the map, every record, the default record and the files as
\* they were, so that it creates no record for an unknown guild.
C32_RecordsOnlyByWrites ==
    [][/\ DOMAIN server_settings \subseteq DOMAIN server_settings'
       /\ last_op'.name \in GetterNames =>
              /\ server_settings' = server_settings
              /\ default_server_settings' = default_server_settings
              /\ disk' = disk]_vars

\* a getter was called for a guild that has no record while another guild has
\* one, and the guild still has none
C32_Witness ==
    /\ last_op.name \in GetterNames
    /\ last_op.guild \notin DOMAIN server_settings
    /\ server_settings # EmptyMap

\* a reload whose read-back of a known guild failed has returned, and the guild
\* is still known
C32_FailedLoadKeepsGuild ==
    /\ last_op.name = "reload"
    /\ \E g \in DOMAIN server_settings : <<"load", g>> \in last_op.arg.errors

-----------------------------------------------------------------------------
(* Claims about modules enable and modules disable                         *)

\* C33: after any sequence of modules enable and modules disable commands, no
\* guild's list of enabled modules holds a name more than once; enabling a
\* module that is enabled changes nothing.
C33_NoModuleTwice ==
    \A g \in DOMAIN server_settings :
        LET ms == server_settings[g].modules
        IN  \A i, j \in 1..Len(ms) : i # j => ms[i] # ms[j]

\* C34: when a modules disable X has added its success reaction, the
\* lower-cased name of X is absent from what get_server_specific_modules
\* returns for the guild, so that the commands of X return without effect.
C34_DisabledIsAbsent ==
    (last_op.name = "modules disable" /\ last_op.arg.done) =>
        ~InSeq(Lower(last_op.arg.target), get_server_specific_modules(last_op.guild))

\* C35: after any sequence of commands of a guild, what
\* get_server_specific_modules returns for every guild holds the core module
\* under some spelling, and a modules disable aimed at the core module under
\* any spelling leaves the store as it was.
C35_CoreStaysEnabled ==
    /\ [](\A g \in Guilds :
             \E i \in 1..Len(get_server_specific_modules(g)) :
                 Lower(get_server_specific_modules(g)[i]) = "core")
    /\ [][(/\ last_op'.name = "modules disable"
           /\ Lower(last_op'.arg.target) = "core") =>
              /\ ~last_op'.arg.done
              /\ storeVars' = storeVars]_vars

\* a modules disable core has returned in a guild whose stored list holds
\* "core": the name was found in the list and no module is called "core"
C35_Witness ==
    /\ last_op.name = "modules disable"
    /\ last_op.arg.target = "core"
    /\ last_op.guild \in DOMAIN server_settings
    /\ InSeq("core", server_settings[last_op.guild].modules)
    /\ Len(server_settings[last_op.guild].modules) > 1

-----------------------------------------------------------------------------
(* builtins/serverprefixes.py: the pre command                             *)

\* NAME of builtins/serverprefixes.py
NAME_serverprefixes == "serverprefixes"

\* the checks of pre set and pre reset without the test of the author
PrefixAcceptedUnprivileged(ctx) ==
    NAME_serverprefixes \in Elements(get_server_specific_modules(ctx.guild))

\* pre set and pre reset go on to the setter when the module is enabled in the
\* guild and the author is privileged for it
PrefixAccepted(ctx) ==
    /\ NAME_serverprefixes \in Elements(get_server_specific_modules(ctx.guild))
    /\ is_user_privileged(ctx, NAME_serverprefixes)

\* the arguments of pre: none, reset, set PREFIX
PreArgs == {<<>>, <<"reset">>, <<"set", "!">>}

\* pre, pre reset, pre set PREFIX
Prefix(ctx, args, write_ok) ==
    LET g == ctx.guild
        sets == /\ g # None
                /\ args # <<>>
                /\ PrefixAccepted(ctx)
        prefix == IF args = <<"reset">> THEN PREFIX ELSE args[2]
    IN  /\ IF sets
           THEN /\ set_server_specific_prefix(g, prefix, write_ok)
                /\ prefix_log' = [prefix_log EXCEPT
                                     ![g] = [last |-> <<prefix>>, reread |-> FALSE]]
           ELSE /\ write_ok
                /\ UNCHANGED <<server_settings, disk, write_failures, prefix_log>>
        /\ last_op' = [name |-> "pre", guild |-> g,
                       arg |-> [ctx |-> ctx, args |-> args, done |-> sets]]
        /\ UNCHANGED <<default_server_settings, rrVars, botVars, configVars>>

\* the authors of pre: an administrator of each guild, members of guild 1 with
\* role 7 and with no role, and an author outside any guild
PrefixContexts ==
    {Context(1, TRUE, {}), Context(2, TRUE, {}), Context(1, FALSE, {7}),
     Context(1, FALSE, {}), Context(None, FALSE, {})}

PreNext ==
    \/ \E ctx \in PrefixContexts, args \in PreArgs, write_ok \in BOOLEAN :
           Prefix(ctx, args, write_ok)
    \/ \E g \in Guilds : ModulesEnable(Context(g, TRUE, {}), "ServerPrefixes", TRUE)
    \/ \E g \in Guilds : ModulesDisable(Context(g, TRUE, {}), "ServerPrefixes", TRUE)
    \/ \E f \in {"allow", "remove"} :
           ModuleAccessSet(Context(1, TRUE, {}), 7, NAME_serverprefixes, f, TRUE)

SpecPre == Init /\ [][PreNext]_vars

-----------------------------------------------------------------------------
(* The commands of the gods: gstate and gmod together                      *)

\* the lengths of the errortexts in the replies of gstate
ShortErrors == [r \in DOMAIN server_settings \cup {ConfigRecord} |-> 300]

GodNext ==
    \/ \E g \in Guilds : SetPrefix(g, "!", TRUE)
    \/ FileEdited(1, [ServerSettings(1) EXCEPT !.prefix = "?"])
    \/ \E a \in AuthorInputs, args \in GstateArgs : Gstate(a, args, {}, ShortErrors)
    \/ \E a \in AuthorInputs, m \in ExtensionInputs : GmodLoad(a, m)
    \/ \E a \in AuthorInputs, m \in ExtensionInputs : GmodUnload(a, m)
    \/ \E a \in AuthorInputs, m \in ExtensionInputs : GmodReload(a, m)

SpecGod == Init /\ [][GodNext]_vars

\* C37: a gstate or gmod command of an author whose id is not in the gods of
\* the global config, whatever the permissions of the author in a guild, runs
\* no dump and no load, loads, unloads and reloads no extension, does not
\* refresh the registry, and leaves the store, the files, the global config,
\* the cogs, the registry and the tasks as they were.
C37_OnlyGodsChangeGlobalState ==
    [][\A a \in AuthorInputs :
          (/\ ~InSeq(a, config.gods)
           /\ \/ \E args \in GstateArgs : Gstate(a, args, {}, ShortErrors)
              \/ \E m \in ExtensionInputs :
                     GmodLoad(a, m) \/ GmodUnload(a, m) \/ GmodReload(a, m)) =>
              /\ UNCHANGED <<storeVars, configVars, botVars, background_tasks>>
              /\ last_op'.name = "gstate" => ~last_op'.arg.ran
              /\ last_op'.name # "gstate" => ~last_op'.arg.refreshed]_vars

\* an author who is no god has sent gstate reload while the file of a known
\* guild differed from its record, and it still differs
C37_Witness ==
    /\ last_op.name = "gstate"
    /\ last_op.arg.author_id = 501
    /\ last_op.arg.args = "reload"
    /\ \E g \in DOMAIN server_settings : disk[g] # server_settings[g]

-----------------------------------------------------------------------------
(* refresh_module_info over every set and order of cogs                    *)

\* the cogs other than Core that Bot.cogs may hold: the cogs of the two
\* extensions, the cog of each after its class was renamed, which an extension
\* whose setup adds two cogs also holds beside the first
CogInputs ==
    {Cog(ReactionRolesPath), [name |-> "Roles", path |-> ReactionRolesPath],
     Cog(ExternalPath), [name |-> "Extra2", path |-> ExternalPath]}

\* Bot.cogs, a dict keyed by name: Core, added first and never removed, then
\* at most two more cogs
CogLists ==
    {<<Cog(core_path)>>}
    \cup {<<Cog(core_path), a>> : a \in CogInputs}
    \cup {s \in {<<Cog(core_path), a, b>> : a \in CogInputs, b \in CogInputs} :
              s[2].name # s[3].name}

\* extensions were loaded, unloaded or reloaded so that Bot.cogs is cogs, and
\* refresh_module_info ran
Refreshed(cogs) ==
    LET mods == refresh_module_info(cogs, bot_modules, source_files)
    IN  /\ bot_cogs' = cogs
        /\ bot_modules' = mods
        /\ last_op' = [name |-> "refresh", guild |-> 0,
                       arg |-> [module |-> "", refreshed |-> TRUE,
                                changed |-> mods # bot_modules]]
        /\ UNCHANGED <<storeVars, write_failures, rrVars, configVars, source_files,
                       ready, prefix_log>>

RegNext ==
    \/ \E cogs \in CogLists : Refreshed(cogs)
    \/ \E f \in SourceFileInputs : SourceChanged(ReactionRolesPath, f)

SpecReg == Init /\ [][RegNext]_vars

\* C38: the registry never holds two Modules with the same path, and no step
\* removes or moves a Module: the paths of the registry before the step are,
\* in the same order, the first paths of the registry after it.
C38_OneModulePerPath ==
    /\ [](\A i, j \in 1..Len(bot_modules) :
             bot_modules[i].path = bot_modules[j].path => i = j)
    /\ [][/\ Len(bot_modules') >= Len(bot_modules)
          /\ \A i \in 1..Len(bot_modules) :
                 bot_modules'[i].path = bot_modules[i].path]_vars

\* the registry was refreshed while two cogs had the same path, it holds a
\* Module appended after construction, and the Module of the reaction-role
\* extension carries the name of the renamed cog
C38_Witness ==
    /\ last_op.name = "refresh"
    /\ \E j, k \in 1..Len(bot_cogs) : j # k /\ bot_cogs[j].path = bot_cogs[k].path
    /\ already_registered(bot_modules, ExternalPath)
    /\ \E i \in 1..Len(bot_modules) :
           /\ bot_modules[i].path = ReactionRolesPath
           /\ bot_modules[i].name = "Roles"

\* the source file of the extension that is neither the core module nor under
\* reixi.builtins
ExternalSource == [state |-> "file", content |-> 3]

\* the source file of the module at path p
OwnSource(p) == IF p \in DOMAIN source_files THEN source_files[p] ELSE ExternalSource

\* C39: after a command that refreshed the registry, the Module of every active
\* cog whose own source file exists has as hash the first ten digits of the
\* fingerprint of that file, or the unknown marker; this holds also for a cog
\* that is neither the core module nor under reixi.builtins.
C39_HashOfOwnSource ==
    [][(last_op'.name \in RefreshOps /\ last_op'.arg.refreshed) =>
          \A k \in 1..Len(bot_cogs') : \A i \in 1..Len(bot_modules') :
              (/\ bot_modules'[i].path = bot_cogs'[k].path
               /\ OwnSource(bot_cogs'[k].path).state # "missing") =>
                  bot_modules'[i].hash \in
                      {Take(hash_file(OwnSource(bot_cogs'[k].path)), HashWidth),
                       Take(Unknown, HashWidth)}]_vars

====
